---------------------------- MODULE Spec2Model ----------------------------
(***************************************************************************)
(* A model of the momentum-capture recording core (src-tauri/src):         *)
(*   - Recorder, the session state machine      services/recording.rs      *)
(*   - RecordingClock, the pause-aware clock    services/recording.rs      *)
(*   - ScreenCaptureKitRecorder, the capture side                          *)
(*                     services/platform/screencapturekit_recorder/*.rs    *)
(*   - the capture callbacks and the microphone reader                     *)
(*                     frame_handler.rs, start.rs                          *)
(*   - SyncedFrameBuffer, the camera frame ring services/camera.rs         *)
(*   - CameraSyncHandle, the camera sync engine services/camera.rs         *)
(*   - the recording commands                   commands/mod.rs            *)
(*   - AppSettings and the SettingsStore        models.rs, settings.rs     *)
(*   - parse_shortcut                           services/hotkey.rs         *)
(*   - push_alignment_filter and build_atempo_chain of the mux             *)
(*                                              .../mux.rs                 *)
(*   - stop_recording, step by step             .../stop.rs                *)
(*   - the writer slots of the callbacks        state.rs, frame_handler.rs   *)
(*   - the elapsed ticker                       services/recording.rs        *)
(*   - CameraPreview and its reader threads     services/camera.rs           *)
(*   - capture_audio_metadata                   .../frame_handler.rs         *)
(*   - the state and clock mutexes of a Recorder  services/recording.rs      *)
(*                                                                         *)
(* Specifications:                                                         *)
(*   Spec      one caller; start/pause/resume/stop/mute with the failures  *)
(*             of the encoder locator, the capture source and the mux      *)
(*   SpecRace  two callers racing start() on clones of one Recorder        *)
(*   SpecAudio the capture callbacks writing the pipe and the raw files    *)
(*   SpecClock the RecordingClock alone, with time passing                 *)
(*   SpecBuf   the SyncedFrameBuffer alone                                 *)
(*   SpecSync  the CameraSyncHandle: camera frames pushed, screen           *)
(*             timestamps published, sync switched on and off              *)
(*   SpecCadence  the CameraSyncHandle fed a camera and a screen stream at *)
(*             one cadence, a fixed shift apart                            *)
(*   SpecCmd   the UI invoking the recording commands one at a time, with  *)
(*             the events they and the saving task emit                    *)
(*   SpecSettings  a SettingsStore loading and saving over any file found  *)
(*   SpecShortcut  parse_shortcut applied to shortcut strings              *)
(*   SpecMux   the alignment filters built for each pair of audio offsets  *)
(*   SpecTempo the atempo chain built for each microphone rate ratio       *)
(*   SpecPause one caller inside start() while another pauses, resumes     *)
(*             and stops                                                   *)
(*   SpecScreen  one session with the camera: screen frames handled by     *)
(*             the capture callback, camera frames pushed, pause, resume   *)
(*   SpecTick  two callback threads inside emit_for_screen_pts, each       *)
(*             interruptible between the offset's load and its store       *)
(*   SpecStop  two callers running stop_recording step by step             *)
(*   SpecStopLive  one stop_recording whose steps and timeouts are taken     *)
(*             fairly, the children free never to exit                       *)
(*   SpecWriters  two callbacks writing frames while the slots are closed    *)
(*   SpecTicker  sessions started and stopped around the elapsed ticker      *)
(*   SpecPreview  the camera preview started and stopped while its reader    *)
(*             threads run                                                   *)
(*   SpecLayout  two audio callbacks inside capture_audio_metadata           *)
(*   SpecLocking  two threads inside Recorder operations, lock by lock       *)
(***************************************************************************)
EXTENDS Integers, Sequences, FiniteSets, TLC

VARIABLES
    \* RecorderState (recording.rs:45-53), behind Recorder.state
    is_recording, is_paused, output_file, include_microphone, include_camera,
    elapsed_task,
    \* RecordingClock (recording.rs:69-74), behind Recorder.clock, and Instant::now()
    clock, now,
    \* ScreenCaptureKitRecorder (mod.rs:17-22)
    sck_state, mic_muted, system_audio_muted, recording_paused,
    \* CameraSyncHandle.sync_enabled (camera.rs:114)
    sync_enabled,
    \* child processes alive, files of the current session that exist
    procs, fs,
    \* what the capture callbacks wrote in the current session
    video_frame_count, audio_samples_written, mic_samples_written,
    sys_audio_file, mic_audio_file,
    \* first_mic_audio_arrival_ns (start.rs:152) of the current session, with
    \* the history of its stores
    mic_arrival,
    \* history: the sources whose mute setter was called in the current
    \* session, the number of samples handled in it
    session_mutes, handled,
    \* SyncedFrameBuffer (camera.rs:35-40)
    frames, last_frame, min_queued, max_queued,
    \* CameraSyncHandle (camera.rs:111-124); the app handle is set before the
    \* preview thread pushes its first frame
    frame_in_count, frame_out_count, last_emit_delta_ns, last_screen_pts_ns,
    screen_tick_count, last_emitted_frame, target_offset_ns, dropped_frames,
    repeated_frames,
    \* history, since sync was last switched off: every "camera-frame" event
    \* emitted, the frames the buffer lost to overflow and to pops that
    \* passed over them, the last screen timestamp handled
    emitted, overflowed, skipped, last_sync,
    \* callers: where each thread is inside Recorder::start, and its locals
    pc, call,
    \* history: the last call that returned, the last sample a callback
    \* handled, the last buffer operation, every frame ever pushed, time
    \* spent with the clock running, whether some lookup, capture start or
    \* capture stop has failed
    last, last_cb, last_buf, pushed, ran_for, faulted,
    \* the command being served (commands/mod.rs) and the events it and its
    \* background task have emitted to the UI
    cmd, events,
    \* the settings file of the SettingsStore (settings.rs:8), None when it
    \* does not exist, and history: the last call on the store
    settings_file, settings_last,
    \* the shortcut string handed to parse_shortcut (hotkey.rs:253) and its
    \* result; the audio offsets handed to mux_final_video (mux.rs:8) and the
    \* alignment filters it built
    shortcut, parsed, offsets, filters,
    \* the ratio handed to build_atempo_chain (mux.rs:248) and the factors of
    \* the chain it returned, in the order written
    ratio, tempo,
    \* the capture callbacks inside emit_for_screen_pts between the load of
    \* target_offset_ns (camera.rs:252) and its store (265), with their locals
    ticking,
    \* the callers inside stop_recording (stop.rs:10-133): the RecordingState
    \* each took out of STATE, and history: every step a stop has finished
    stopping,
    \* the two writer slots shared by stop_recording and the capture callbacks
    \* (state.rs:16-17, frame_handler.rs:15-16): whether each holds its
    \* writer, who holds its mutex, the bytes its writer has taken, and the
    \* callbacks inside did_output_sample_buffer
    writers,
    \* the elapsed ticker registered by start_elapsed_task (recording.rs:268),
    \* where the tickers stopped but not yet finished are, and history: every
    \* "recording-elapsed" event emitted
    ticker,
    \* CameraPreview (camera.rs:306-310): is_running, the reader threads its
    \* start() calls have spawned with their locals, and host_time_now_ns()
    preview,
    \* the cached layout of the system audio (frame_handler.rs:17-18) and the
    \* audio callbacks inside capture_audio_metadata, with their locals
    audio_layout,
    \* the two mutexes of a Recorder (recording.rs:56-59), and where each
    \* thread is inside a Recorder operation
    locking

recVars   == <<is_recording, is_paused, output_file, include_microphone,
               include_camera, elapsed_task>>
clockVars == <<clock, now, ran_for>>
sckVars   == <<sck_state, mic_muted, system_audio_muted, recording_paused,
               sync_enabled, procs, fs>>
cbVars    == <<video_frame_count, audio_samples_written, mic_samples_written,
               sys_audio_file, mic_audio_file, mic_arrival, last_cb,
               session_mutes, handled>>
syncVars  == <<frame_in_count, frame_out_count, last_emit_delta_ns,
               last_screen_pts_ns, screen_tick_count, last_emitted_frame,
               target_offset_ns, dropped_frames, repeated_frames, emitted,
               overflowed, skipped, last_sync>>
bufVars   == <<frames, last_frame, min_queued, max_queued, last_buf, pushed,
               syncVars>>
threadVars == <<writers, ticker, preview, audio_layout, locking>>
ioVars    == <<settings_file, settings_last, shortcut, parsed, offsets,
               filters, ratio, tempo, ticking, stopping, threadVars>>
appVars   == <<cmd, events, ioVars>>
callVars  == <<pc, call, last, faulted, appVars>>
vars      == <<recVars, clockVars, sckVars, cbVars, bufVars, callVars>>

-----------------------------------------------------------------------------
(* Bounds of the model *)

\* Instant::now() advances at most this far
MaxTime == 2
\* samples (screen frames, audio blocks, microphone reads) followed in one session
MaxSamples == 2
\* pushes onto the camera buffer after the initial contents, and the pops
\* and clears among them
MaxPush == 3
MaxPop == 1
\* screen timestamps published to the camera sync engine
MaxTicks == 2
\* the longest string of the settings
MaxStr == 1
\* the most segments of a shortcut string
MaxSegments == 3
\* the largest audio offset, in steps of 0.3502 ms
MaxOffsetSteps == 6
\* ratios handed to build_atempo_chain, in steps of 0.100005
MaxRatioSteps == 60
\* how far below capacity the pre-filled camera buffer starts
PrefillGap == 1
\* channels of the resolved microphone device
MicChannels == 2
\* how far Instant::now() advances around a RecordingClock on its own, and
\* the longest single sleep
MaxClockTime == 8
MaxSleep == 2

-----------------------------------------------------------------------------
(* Option<T> *)

None == [some |-> FALSE]
Some(x) == [some |-> TRUE, v |-> x]

Max(a, b) == IF a > b THEN a ELSE b
Min(a, b) == IF a < b THEN a ELSE b

-----------------------------------------------------------------------------
(* RecordingClock *)

clock_default == [start_instant |-> None, accumulated |-> 0, running |-> FALSE]

clock_start(c, t) ==
    [start_instant |-> Some(t), accumulated |-> 0, running |-> TRUE]

clock_pause_forgetting(c, t) ==
    IF c.running
    THEN [start_instant |-> None, accumulated |-> c.accumulated, running |-> FALSE]
    ELSE c

clock_pause(c, t) ==
    IF c.running
    THEN [start_instant |-> None,
          accumulated |-> IF c.start_instant.some
                          THEN c.accumulated + (t - c.start_instant.v)
                          ELSE c.accumulated,
          running |-> FALSE]
    ELSE c

clock_resume_restarting(c, t) ==
    [c EXCEPT !.start_instant = Some(t), !.running = TRUE]

clock_resume(c, t) ==
    IF ~c.running
    THEN [c EXCEPT !.start_instant = Some(t), !.running = TRUE]
    ELSE c

clock_stop(c) ==
    [start_instant |-> None, accumulated |-> 0, running |-> FALSE]

clock_elapsed(c, t) ==
    IF c.running /\ c.start_instant.some
    THEN c.accumulated + (t - c.start_instant.v)
    ELSE c.accumulated

-----------------------------------------------------------------------------
(* AppResult<T> *)

Ok == [ok |-> TRUE, kind |-> "", msg |-> ""]
Err(m) == [ok |-> FALSE, kind |-> "Recording", msg |-> m]

-----------------------------------------------------------------------------
(* Callers and their inputs *)

Threads == {"t1", "t2"}
\* the threads the capture source delivers screen frames on
Callbacks == {"c1", "c2"}

\* RecordingOptions; screen_target is never read by the recorder
RecordingOptions == [include_microphone : BOOLEAN, include_camera : BOOLEAN]

\* what the environment does to one start_recording: nothing, or the step it fails
StartFaults == {"none", "shareable_content", "device_resolution",
                "ffmpeg_spawn", "audio_file", "mic_file", "mic_spawn",
                "start_capture"}

\* what the environment does to one capture-side stop: whether the encoder
\* child left a video file, whether the mux process succeeded, whether a
\* failed mux left an output file behind, whether remove_file and copy succeed
StopEnvs == {e \in [enc_ok : BOOLEAN, mux_ok : BOOLEAN, partial : BOOLEAN,
                    remove_ok : BOOLEAN, copy_ok : BOOLEAN] :
                /\ e.mux_ok => e.enc_ok
                /\ e.partial => ~e.mux_ok}

GoodEnv == [enc_ok |-> TRUE, mux_ok |-> TRUE, partial |-> FALSE,
            remove_ok |-> TRUE, copy_ok |-> TRUE]

\* Recorder::build_output_path: a fresh uuid-named path for each call
build_output_path(t) == Some(<<"momentum_screen", t>>)

\* the fields an illegal call must leave alone
Snap == [is_recording |-> is_recording, is_paused |-> is_paused,
         recording_paused |-> recording_paused, clock |-> clock]

NoCall == [options |-> [include_microphone |-> FALSE, include_camera |-> FALSE],
           path |-> None, pre |-> None, res |-> Ok]

\* the fields of the session that a refused start() must leave alone
Fields == <<output_file, include_microphone, include_camera>>

\* the transition table: the calls each state of the session accepts
TableAllows(op, pre) ==
    CASE op = "start"  -> ~pre.is_recording
      [] op = "pause"  -> pre.is_recording /\ ~pre.is_paused
      [] op = "resume" -> pre.is_recording /\ pre.is_paused
      [] op = "stop"   -> pre.is_recording
      [] OTHER         -> TRUE

\* no sample handled yet in this session
NoCb == [kind |-> "none", paused |-> FALSE, muted |-> FALSE,
         write_ok |-> TRUE, planes |-> <<>>, chunk |-> <<>>, appended |-> <<>>,
         delta |-> 0, file_kept |-> TRUE, dropped_before |-> FALSE,
         session_mute |-> FALSE]

\* AtomicU64::compare_exchange, as the new value of the atomic
compare_exchange_storing(current, expected, new) == new
compare_exchange(current, expected, new) ==
    IF current = expected THEN new ELSE current

\* first_mic_audio_arrival_ns as start.rs:152 creates it, nothing stored yet
NoArrival == [ns |-> 0, stores |-> 0, now_ns |-> 0, paused |-> FALSE,
              muted |-> FALSE]

\* the writer slots: the encoder's stdin and the system-audio file
Writers == {"video", "audio"}

\* a callback thread outside did_output_sample_buffer
NotWriting == [at |-> "idle", w |-> "video", frame |-> 0, written |-> 0,
               failed |-> FALSE]

\* no session yet: the slots empty, the mutexes free, nothing written, no
\* frame's write refused by its writer
NoWriters == [slot |-> [w \in Writers |-> FALSE],
              lock |-> [w \in Writers |-> "free"],
              out |-> [w \in Writers |-> <<>>],
              closed_at |-> [w \in Writers |-> None],
              cb |-> [c \in Callbacks |-> NotWriting],
              refused |-> {}, opened |-> FALSE]

\* no ticker spawned, no "recording-elapsed" event emitted
NoTicker == [task |-> "none", stopped |-> {}, emitted |-> <<>>]

\* the reader threads that CameraPreview::start spawns, "r1" first
Readers == {"r1", "r2"}

\* CameraPreview::new: not running, no reader thread spawned
NoPreview == [is_running |-> FALSE,
              readers |-> [r \in Readers |->
                             [pc |-> "unspawned", frame_id |-> 0, pts_ns |-> 0]],
              host_time |-> 0]

\* an audio callback outside capture_audio_metadata
NotDetecting == [pc |-> "idle", current_rate |-> 0, current_channels |-> 0,
                 detected_rate |-> 0, detected_channels |-> 0]

\* the atomics as start.rs:280-281 creates them: rate and channels unknown
NoLayout == [sample_rate |-> 0, channel_count |-> 0,
             cb |-> [c \in Callbacks |-> NotDetecting],
             stores |-> [sample_rate |-> 0, channel_count |-> 0],
             refused |-> {}, packets |-> 0]

\* both mutexes free, no thread inside a Recorder operation
NoLocking == [owner |-> [m \in {"state", "clock"} |-> "none"],
              th |-> [t \in Threads |-> [op |-> "none", at |-> 0]]]

\* no caller inside stop_recording, no step of a stop finished
NotStopping == [state |-> [t \in Threads |-> None], steps |-> <<>>]

\* what try_wait finds in the wait loops of stop_recording (stop.rs:47-67,
\* 77-96): the child has exited, the child outlives the timeout and is killed
\* and waited for, try_wait fails and the child is killed
WaitOutcomes == {"exited", "timeout", "error"}

\* a callback that is not between the load and the store of the offset;
\* raced says whether its last store replaced an offset other than the one
\* it had loaded
NotTicking == [loaded |-> FALSE, offset |-> 0, delta |-> 0,
               leading_delay_ns |-> 0, raced |-> FALSE]

\* no call on the SettingsStore yet
NoStoreCall == [op |-> "none", res |-> Ok, found |-> FALSE, read_ok |-> TRUE,
                saved |-> None, overwrote |-> FALSE]

\* no command has been invoked
NoCmd == [name |-> "none", options |-> [include_microphone |-> FALSE,
                                        include_camera |-> FALSE],
          done |-> TRUE, res |-> Ok, stopped |-> FALSE, task |-> "none",
          copied |-> FALSE, removed |-> FALSE]

NoLast == [op |-> "none", t |-> "t1", res |-> Ok, legal |-> TRUE, same |-> TRUE,
           fields |-> TRUE, env |-> GoodEnv, capture |-> None, kept |-> TRUE]

-----------------------------------------------------------------------------
(* ScreenCaptureKitRecorder: start_recording *)

\* The order of the fallible steps of start_recording; a step that is skipped
\* (the microphone's, when mic_enabled is false) cannot fail.
start_steps(mic_enabled) ==
    <<"shareable_content">>
    \o (IF mic_enabled THEN <<"device_resolution">> ELSE <<>>)
    \o <<"ffmpeg_spawn", "audio_file">>
    \o (IF mic_enabled THEN <<"mic_file", "mic_spawn">> ELSE <<>>)
    \o <<"start_capture">>

\* the index of the step that fails, or 0
failing_step(mic_enabled, f) ==
    LET steps == start_steps(mic_enabled)
        hit == {i \in 1..Len(steps) : steps[i] = f}
    IN  IF hit = {} THEN 0 ELSE CHOOSE i \in hit : TRUE

\* the steps that ran to completion before the failure (all, when none fails)
steps_done(mic_enabled, f) ==
    LET steps == start_steps(mic_enabled)
        k == failing_step(mic_enabled, f)
    IN  {steps[i] : i \in 1..(IF k = 0 THEN Len(steps) ELSE k - 1)}

\* start_recording's result, the children it spawned and the files it created
start_recording(mic_enabled, f) ==
    LET done == steps_done(mic_enabled, f)
        ok == failing_step(mic_enabled, f) = 0
    IN  [res |-> IF ok THEN Ok ELSE Err(f),
         spawned |-> (IF "ffmpeg_spawn" \in done THEN {"video"} ELSE {})
                     \cup (IF "mic_spawn" \in done THEN {"mic", "mic_reader"}
                                                   ELSE {}),
         created |-> (IF "audio_file" \in done THEN {"sys_audio"} ELSE {})
                     \cup (IF "mic_file" \in done THEN {"mic_audio"} ELSE {})]

\* a child whose Child handle was dropped without kill or wait (the reader
\* thread of a leaked microphone child lives on with it)
leaked(children) ==
    {IF c = "video" THEN "leaked_video" ELSE "leaked_mic" : c \in children}

-----------------------------------------------------------------------------
(* ScreenCaptureKitRecorder: stop_recording, on the files of the session *)

\* STEP 4: the encoder child exits and leaves the temp video (or does not)
after_encoder(files, e) ==
    IF e.enc_ok THEN files \cup {"temp_video"} ELSE files

\* STEP 6: mux_final_video writes the output; a failed mux may leave a part
after_mux(files, e) ==
    IF e.mux_ok \/ e.partial THEN files \cup {"output"} ELSE files

\* "Clean up temp files": remove_file on the three temp files
after_cleanup(files, e) ==
    IF e.remove_ok THEN files \ {"temp_video", "sys_audio", "mic_audio"} ELSE files

\* "If mux failed, copy video-only": guarded by temp_video_path.exists()
copies_video(files, e) == ~e.mux_ok /\ "temp_video" \in files

after_copy(files, e) ==
    IF copies_video(files, e) /\ e.copy_ok THEN files \cup {"output"} ELSE files

\* the files left by stop_recording, in the order of the code:
\* encoder exit, mux, cleanup, and only then the video-only copy
stop_files(files, e) ==
    after_copy(after_cleanup(after_mux(after_encoder(files, e), e), e), e)

stop_result(files, e) ==
    IF "output" \in stop_files(files, e) THEN Ok ELSE Err("Output file not created")

-----------------------------------------------------------------------------
(* SyncedFrameBuffer *)

CAMERA_BUFFER_CAPACITY == 300

\* the buffer as one value; min_queued starts at usize::MAX, modelled as None
Buffer == [frames |-> frames, last_frame |-> last_frame,
           min_queued |-> min_queued, max_queued |-> max_queued]

SetBuffer(b) ==
    /\ frames' = b.frames
    /\ last_frame' = b.last_frame
    /\ min_queued' = b.min_queued
    /\ max_queued' = b.max_queued

update_stats(b) ==
    LET len == Len(b.frames)
    IN  [b EXCEPT !.min_queued = IF ~b.min_queued.some \/ len < b.min_queued.v
                                 THEN Some(len) ELSE b.min_queued,
                  !.max_queued = IF len > b.max_queued THEN len ELSE b.max_queued]

\* while self.frames.len() > CAMERA_BUFFER_CAPACITY { self.frames.pop_front(); }
trim_newest(q) ==
    IF Len(q) > CAMERA_BUFFER_CAPACITY
    THEN SubSeq(q, 1, CAMERA_BUFFER_CAPACITY) ELSE q

RECURSIVE trim(_)
trim(q) ==
    IF Len(q) > CAMERA_BUFFER_CAPACITY THEN trim(Tail(q)) ELSE q

push(b, frame) ==
    update_stats([b EXCEPT !.frames = trim(Append(b.frames, frame)),
                           !.last_frame = Some(frame)])

\* the scan of pop_for_screen_pts, which stops at the first frame with
\* pts_ns > screen_pts_ns: the index of the last frame of the leading run
\* with pts_ns <= screen_pts_ns, or 0 for None
candidate_idx_first(q, screen_pts_ns) ==
    IF q # <<>> /\ q[1].pts_ns <= screen_pts_ns THEN 1 ELSE 0

candidate_idx(q, screen_pts_ns) ==
    LET later == {idx \in 1..Len(q) : q[idx].pts_ns > screen_pts_ns}
    IN  IF later = {} THEN Len(q)
        ELSE (CHOOSE idx \in later : \A j \in later : idx <= j) - 1

\* pop_for_screen_pts without the test of line 64: the oldest frame is
\* popped whatever its pts_ns
pop_for_screen_pts_oldest(b, screen_pts_ns) ==
    IF b.frames = <<>>
    THEN [buffer |-> b, frame |-> None]
    ELSE [buffer |-> update_stats([b EXCEPT !.frames = Tail(b.frames)]),
          frame |-> Some(b.frames[1])]

\* pop_for_screen_pts: the buffer afterwards and the frame returned
pop_for_screen_pts(b, screen_pts_ns) ==
    LET idx == candidate_idx(b.frames, screen_pts_ns)
    IN  IF idx = 0
        THEN [buffer |-> b, frame |-> None]
        ELSE [buffer |-> update_stats(
                            [b EXCEPT !.frames = SubSeq(b.frames, idx + 1,
                                                        Len(b.frames))]),
              frame |-> Some(b.frames[idx])]

clear(b) ==
    [frames |-> <<>>, last_frame |-> None, min_queued |-> None, max_queued |-> 0]

\* a camera frame: its id and its presentation time
CameraFramePayload(id, pts_ns) == [id |-> id, pts_ns |-> pts_ns]

\* the frames of n pushes at one time unit each, and the buffer they leave
Prefilled(n) == [i \in 1..n |-> CameraFramePayload(i, i)]

Prefill == CAMERA_BUFFER_CAPACITY - PrefillGap

\* pushes made since the initial contents
pushes_made == IF Len(pushed) >= Prefill THEN Len(pushed) - Prefill
                                         ELSE Len(pushed)

\* the presentation times tried for the next frame: before, at and after
\* the newest one pushed
NextPts ==
    LET newest == IF pushed = <<>> THEN 1 ELSE pushed[Len(pushed)].pts_ns
    IN  {newest, newest + 1} \cup (IF newest > 0 THEN {newest - 1} ELSE {})

\* the screen times tried: before the oldest frame, at it, and at the newest
ScreenPts ==
    IF frames = <<>> THEN {0}
    ELSE {frames[1].pts_ns - 1, frames[1].pts_ns, frames[Len(frames)].pts_ns}
         \ {-1}

notBuf == <<recVars, clockVars, sckVars, cbVars, callVars, syncVars>>

Push(pts_ns) ==
    /\ pushes_made < MaxPush
    /\ LET frame == CameraFramePayload(Len(pushed) + 1, pts_ns)
       IN  /\ SetBuffer(push(Buffer, frame))
           /\ pushed' = Append(pushed, frame)
           /\ last_buf' = [op |-> "push", was_len |-> Len(frames),
                           frame |-> Some(frame), pops |-> last_buf.pops,
                           synced |-> sync_enabled]
    /\ UNCHANGED notBuf

PopForScreenPts(screen_pts_ns) ==
    /\ last_buf.pops < MaxPop
    /\ LET r == pop_for_screen_pts(Buffer, screen_pts_ns)
       IN  /\ SetBuffer(r.buffer)
           /\ last_buf' = [op |-> "pop_for_screen_pts", was_len |-> Len(frames),
                           frame |-> r.frame, pops |-> last_buf.pops + 1,
                           synced |-> sync_enabled]
    /\ UNCHANGED <<pushed, notBuf>>

Clear ==
    /\ last_buf.pops < MaxPop
    /\ SetBuffer(clear(Buffer))
    /\ last_buf' = [op |-> "clear", was_len |-> Len(frames), frame |-> None,
                    pops |-> last_buf.pops + 1, synced |-> sync_enabled]
    /\ UNCHANGED <<pushed, notBuf>>

-----------------------------------------------------------------------------
(* CameraSyncHandle::set_sync_enabled, as far as the recorder drives it *)

\* no screen timestamp handled yet
NoSync == [op |-> "none", screen_pts_ns |-> 0, offset |-> 0, adjusted |-> 0,
           was |-> <<>>, left |-> <<>>, frame |-> None, enabled |-> FALSE,
           emits |-> 0]

\* the history once another operation has followed the last screen
\* timestamp: only the number of timestamps handled is kept
NotATick == [NoSync EXCEPT !.emits = last_sync.emits]

CAMERA_TARGET_LAG_NS == 5000000
MAX_CAM_DELAY_NS == 120000000
\* AtomicU64::new(30_000_000) in new, and the store in set_sync_enabled
INITIAL_TARGET_OFFSET_NS == 30000000

\* u64::saturating_sub
saturating_sub(a, b) == IF a > b THEN a - b ELSE 0

\* disabling a handle that was enabled clears the frame buffer and the
\* last emitted frame and resets the counters and the offset; enabling
\* changes the flag alone
SetSyncEnabled(enabled) ==
    /\ sync_enabled' = enabled
    /\ IF ~enabled /\ sync_enabled
       THEN /\ SetBuffer(clear(Buffer))
            /\ last_emitted_frame' = None
            /\ frame_in_count' = 0
            /\ frame_out_count' = 0
            /\ screen_tick_count' = 0
            /\ dropped_frames' = 0
            /\ repeated_frames' = 0
            /\ target_offset_ns' = INITIAL_TARGET_OFFSET_NS
            /\ overflowed' = 0
            /\ skipped' = 0
            /\ pushed' = <<>>
            /\ emitted' = <<>>
            /\ last_sync' = NoSync
       ELSE /\ UNCHANGED <<frames, last_frame, min_queued, max_queued,
                           last_emitted_frame, frame_in_count, frame_out_count,
                           screen_tick_count, dropped_frames, repeated_frames,
                           target_offset_ns, overflowed, skipped, pushed,
                           emitted>>
            /\ last_sync' = NotATick
    /\ UNCHANGED <<last_buf, last_emit_delta_ns, last_screen_pts_ns>>

\* adjust_offset without the cap
adjust_offset_uncapped(offset, delta, leading_delay_ns) ==
    LET desired == CAMERA_TARGET_LAG_NS
        stepped == IF delta > desired
                   THEN offset + Max((delta - desired) \div 8, 1000)
                   ELSE saturating_sub(offset,
                                       Max((desired - delta) \div 8, 1000))
    IN  IF leading_delay_ns > MAX_CAM_DELAY_NS \div 2
        THEN stepped + leading_delay_ns \div 16
        ELSE stepped

\* the offset after an emission: an eighth of the distance of delta from
\* the target lag, at least 1000 ns, added when delta is above the target
\* and subtracted otherwise; a sixteenth of the leading delay added when
\* that exceeds half the cap; never above the cap
adjust_offset(offset, delta, leading_delay_ns) ==
    LET desired == CAMERA_TARGET_LAG_NS
        stepped == IF delta > desired
                   THEN Min(offset + Max((delta - desired) \div 8, 1000),
                            MAX_CAM_DELAY_NS)
                   ELSE saturating_sub(offset,
                                       Max((desired - delta) \div 8, 1000))
    IN  IF leading_delay_ns > MAX_CAM_DELAY_NS \div 2
        THEN Min(stepped + leading_delay_ns \div 16, MAX_CAM_DELAY_NS)
        ELSE stepped

\* a "camera-frame" event: the frame, what emitted it, and for a frame
\* popped for a screen timestamp the distance between the two
Emission(frame, via, delta) ==
    [id |-> frame.id, pts_ns |-> frame.pts_ns, via |-> via, delta |-> delta,
     tick |-> IF via = "push" THEN 0 ELSE last_sync.emits + 1]

CAMERA_FRAME_DURATION_NS == 33333333

\* the presentation times tried for the next camera frame; the preview
\* thread stamps each frame with host_time_now_ns(), a monotonic clock, so
\* a frame is never earlier than the one before: one frame duration after
\* the newest pushed, or the same time again
CameraPts ==
    IF pushed = <<>> THEN {0, CAMERA_FRAME_DURATION_NS}
    ELSE LET newest == pushed[Len(pushed)].pts_ns
         IN  {newest + CAMERA_FRAME_DURATION_NS, newest}

\* the screen timestamps tried: zero, the time that puts the adjusted
\* timestamp just before the oldest queued frame, and for every queued
\* frame the time that puts it on the frame
ScreenTimes ==
    {0} \cup {frames[i].pts_ns + target_offset_ns : i \in 1..Len(frames)}
        \cup (IF frames # <<>> /\ frames[1].pts_ns + target_offset_ns > 0
              THEN {frames[1].pts_ns + target_offset_ns - 1} ELSE {})

notCam == <<recVars, clockVars, sck_state, mic_muted, system_audio_muted,
            recording_paused, procs, fs, cbVars, callVars>>

\* CameraSyncHandle::set_sync_enabled, called on its own
SetSyncEnabledCall(enabled) ==
    /\ SetSyncEnabled(enabled)
    /\ UNCHANGED notCam

\* push_frame, line 198: if !self.sync_enabled.load(Ordering::Relaxed)
emits_on_push_always == TRUE
emits_on_push == ~sync_enabled

\* CameraSyncHandle::push_frame: the frame is buffered whatever the mode,
\* and emitted at once when sync is disabled
push_frame_payload(frame) ==
    /\ LET len == Len(frames)
       IN  /\ SetBuffer(push(Buffer, frame))
           /\ pushed' = Append(pushed, frame)
           /\ last_buf' = [op |-> "push", was_len |-> len,
                           frame |-> Some(frame), pops |-> last_buf.pops,
                           synced |-> sync_enabled]
           /\ overflowed' = IF len + 1 > CAMERA_BUFFER_CAPACITY
                            THEN overflowed + 1 ELSE overflowed
           /\ frame_in_count' = frame_in_count + 1
           /\ IF emits_on_push
              THEN /\ emitted' = Append(emitted, Emission(frame, "push", 0))
                   /\ last_emitted_frame' = Some(frame)
              ELSE UNCHANGED <<emitted, last_emitted_frame>>
    /\ last_sync' = NotATick
    /\ UNCHANGED <<frame_out_count, last_emit_delta_ns, last_screen_pts_ns,
                   screen_tick_count, target_offset_ns, dropped_frames,
                   repeated_frames, skipped, sync_enabled>>

\* push_frame of the next frame of one reader thread, stamped pts_ns
push_frame(pts_ns) ==
    /\ push_frame_payload(CameraFramePayload(Len(pushed) + 1, pts_ns))
    /\ UNCHANGED notCam

\* push_frame, for a bounded number of frames
PushFrame(pts_ns) ==
    /\ Len(pushed) < MaxPush
    /\ push_frame(pts_ns)

\* emit_for_screen_pts with a repeated frame counted as a drop as well
reuse_or_drop_counting_both ==
    IF last_emitted_frame.some
    THEN /\ emitted' = Append(emitted,
                              Emission(last_emitted_frame.v, "reuse", 0))
         /\ repeated_frames' = repeated_frames + 1
         /\ dropped_frames' = dropped_frames + 1
    ELSE /\ dropped_frames' = dropped_frames + 1
         /\ UNCHANGED <<emitted, repeated_frames>>

\* emit_for_screen_pts, lines 266-286, no frame was popped: the last
\* emitted frame is emitted again, or a drop is counted when there is none
reuse_or_drop ==
    IF last_emitted_frame.some
    THEN /\ emitted' = Append(emitted,
                              Emission(last_emitted_frame.v, "reuse", 0))
         /\ repeated_frames' = repeated_frames + 1
         /\ UNCHANGED dropped_frames
    ELSE /\ dropped_frames' = dropped_frames + 1
         /\ UNCHANGED <<emitted, repeated_frames>>

\* CameraSyncHandle::emit_for_screen_pts, lines 204-252 and, when storing,
\* the offset computed from the loaded one and stored (253-265)
emit_until_store(screen_pts_ns, storing) ==
    /\ last_screen_pts_ns' = screen_pts_ns
    /\ screen_tick_count' = screen_tick_count + 1
    /\ LET adjusted_screen_ns == saturating_sub(screen_pts_ns, target_offset_ns)
           r == pop_for_screen_pts(Buffer, adjusted_screen_ns)
           leading_delay_ns ==
               IF r.buffer.last_frame.some
               THEN saturating_sub(screen_pts_ns, r.buffer.last_frame.v.pts_ns)
               ELSE 0
       IN  /\ IF ~sync_enabled
              THEN UNCHANGED <<frames, last_frame, min_queued, max_queued,
                               frame_out_count, last_emit_delta_ns,
                               last_emitted_frame, target_offset_ns,
                               dropped_frames, repeated_frames, emitted,
                               skipped>>
              ELSE /\ SetBuffer(r.buffer)
                   /\ IF r.frame.some
                      THEN LET frame == r.frame.v
                               delta == saturating_sub(screen_pts_ns,
                                                       frame.pts_ns)
                           IN  /\ last_emit_delta_ns' = delta
                               /\ frame_out_count' = frame_out_count + 1
                               /\ emitted' = Append(emitted,
                                                Emission(frame, "pop", delta))
                               /\ last_emitted_frame' = Some(frame)
                               /\ target_offset_ns' =
                                     IF storing
                                     THEN adjust_offset(target_offset_ns,
                                                        delta, leading_delay_ns)
                                     ELSE target_offset_ns
                               /\ skipped' = skipped + Len(frames)
                                               - Len(r.buffer.frames) - 1
                               /\ UNCHANGED <<dropped_frames, repeated_frames>>
                      ELSE /\ reuse_or_drop
                           /\ UNCHANGED <<frame_out_count, last_emit_delta_ns,
                                          last_emitted_frame, target_offset_ns,
                                          skipped>>
           /\ last_sync' = [op |-> "emit_for_screen_pts",
                            screen_pts_ns |-> screen_pts_ns,
                            offset |-> target_offset_ns,
                            adjusted |-> adjusted_screen_ns, was |-> frames,
                            left |-> frames',
                            frame |-> IF sync_enabled THEN r.frame ELSE None,
                            enabled |-> sync_enabled,
                            emits |-> last_sync.emits + 1]
    /\ UNCHANGED <<frame_in_count, overflowed, last_buf, pushed, sync_enabled>>

\* CameraSyncHandle::emit_for_screen_pts, run without interruption
emit_for_screen_pts(screen_pts_ns) == emit_until_store(screen_pts_ns, TRUE)

notTick == <<recVars, clockVars, sck_state, mic_muted, system_audio_muted,
             recording_paused, procs, fs, cbVars, pc, call, last, faulted,
             cmd, events, settings_file, settings_last, shortcut, parsed,
             offsets, filters, ratio, tempo, stopping, threadVars>>

\* emit_for_screen_pts on callback thread c up to the load of the offset at
\* line 252; a timestamp no frame is popped for is handled to the end
TickLoad(c, screen_pts_ns) ==
    /\ ~ticking[c].loaded
    /\ last_sync.emits < MaxTicks
    /\ emit_until_store(screen_pts_ns, FALSE)
    /\ ticking' =
          [ticking EXCEPT ![c] =
              IF last_sync'.frame.some
              THEN [loaded |-> TRUE, offset |-> target_offset_ns,
                    delta |-> last_emit_delta_ns',
                    leading_delay_ns |->
                        IF last_frame'.some
                        THEN saturating_sub(screen_pts_ns,
                                            last_frame'.v.pts_ns)
                        ELSE 0,
                    raced |-> FALSE]
              ELSE NotTicking]
    /\ UNCHANGED notTick

\* emit_for_screen_pts on callback thread c, lines 253-265: the offset
\* computed from the loaded one is stored
TickStore(c) ==
    /\ ticking[c].loaded
    /\ target_offset_ns' = adjust_offset(ticking[c].offset, ticking[c].delta,
                                         ticking[c].leading_delay_ns)
    /\ ticking' = [ticking EXCEPT ![c] =
                      [NotTicking EXCEPT
                          !.raced = target_offset_ns # ticking[c].offset]]
    /\ UNCHANGED <<frames, last_frame, min_queued, max_queued, last_buf,
                   pushed, frame_in_count, frame_out_count,
                   last_emit_delta_ns, last_screen_pts_ns, screen_tick_count,
                   last_emitted_frame, dropped_frames, repeated_frames,
                   emitted, overflowed, skipped, last_sync, sync_enabled,
                   notTick>>

\* the screen timestamps tried against racing callbacks: the time that
\* puts the adjusted timestamp on the oldest queued frame, and one a second
\* after the first camera frame, far enough for an eighth of the distance
\* to exceed the cap of the offset
FarScreenTimes ==
    {1000000000} \cup (IF frames # <<>>
                       THEN {frames[1].pts_ns + target_offset_ns} ELSE {})

\* emit_for_screen_pts, for a bounded number of screen timestamps
EmitForScreenPts(screen_pts_ns) ==
    /\ last_sync.emits < MaxTicks
    /\ emit_for_screen_pts(screen_pts_ns)
    /\ UNCHANGED notCam

\* CameraPreview::stop on a running preview: set_sync_enabled(false), then
\* CameraSyncHandle::clear, which empties the queue and forgets the last
\* emitted frame but leaves the buffer's last_frame and watermarks and the
\* counters as they are
stop_sync_handle ==
    /\ sync_enabled' = FALSE
    /\ frames' = <<>>
    /\ last_emitted_frame' = None
    /\ IF sync_enabled
       THEN /\ last_frame' = None
            /\ min_queued' = None
            /\ max_queued' = 0
            /\ frame_in_count' = 0
            /\ frame_out_count' = 0
            /\ screen_tick_count' = 0
            /\ dropped_frames' = 0
            /\ repeated_frames' = 0
            /\ target_offset_ns' = INITIAL_TARGET_OFFSET_NS
            /\ overflowed' = 0
            /\ skipped' = 0
            /\ pushed' = <<>>
            /\ emitted' = <<>>
            /\ last_sync' = NoSync
       ELSE /\ UNCHANGED <<last_frame, min_queued, max_queued, frame_in_count,
                           frame_out_count, screen_tick_count, dropped_frames,
                           repeated_frames, target_offset_ns, overflowed,
                           skipped, pushed, emitted>>
            /\ last_sync' = NotATick
    /\ UNCHANGED <<last_buf, last_emit_delta_ns, last_screen_pts_ns>>

\* CameraPreview::stop seen from the sync handle alone
PreviewStop ==
    /\ stop_sync_handle
    /\ UNCHANGED notCam

\* everything but the preview and its sync handle
notPreview == <<recVars, clockVars, sck_state, mic_muted, system_audio_muted,
                recording_paused, procs, fs, cbVars, pc, call, last, faulted,
                cmd, events, settings_file, settings_last, shortcut, parsed,
                offsets, filters, ratio, tempo, ticking, stopping, writers,
                ticker, audio_layout, locking>>

\* the reader that start() spawns next
next_reader == IF preview.readers["r1"].pc = "unspawned" THEN "r1" ELSE "r2"

\* readers inside the read loop: past its check of is_running and not yet
\* back at it
reading == {r \in Readers : preview.readers[r].pc \in {"read", "push"}}

\* CameraPreview::start (camera.rs:334-522) on a preview that is not
\* running: is_running is set and the reader thread is spawned; a start on
\* a running preview returns at line 338 and changes nothing
CameraPreviewStart ==
    /\ ~preview.is_running
    /\ preview.readers["r2"].pc = "unspawned"
    /\ preview' = [preview EXCEPT !.is_running = TRUE,
                                  !.readers[next_reader].pc = "spawning"]
    /\ UNCHANGED <<bufVars, sync_enabled, notPreview>>

\* CameraPreview::stop (524-540) on a running preview: the flag is cleared,
\* sync is switched off and the handle cleared; no reader is waited for
CameraPreviewStop ==
    /\ preview.is_running
    /\ preview' = [preview EXCEPT !.is_running = FALSE]
    /\ stop_sync_handle
    /\ UNCHANGED notPreview

\* the reader thread, lines 383-437: the child is spawned; when that fails
\* the flag is cleared and the thread returns
ReaderSpawn(r, spawn_ok) ==
    /\ preview.readers[r].pc = "spawning"
    /\ preview' = IF spawn_ok
                  THEN [preview EXCEPT !.readers[r].pc = "loop"]
                  ELSE [preview EXCEPT !.readers[r].pc = "done",
                                       !.is_running = FALSE]
    /\ UNCHANGED <<bufVars, sync_enabled, notPreview>>

\* line 465: while *is_running_clone.lock().unwrap()
ReaderLoop(r) ==
    /\ preview.readers[r].pc = "loop"
    /\ preview' = [preview EXCEPT !.readers[r].pc =
                      IF preview.is_running THEN "read" ELSE "done"]
    /\ UNCHANGED <<bufVars, sync_enabled, notPreview>>

\* lines 466-495: one read of the child's stdout; got is "eof" for Ok(0)
\* and Err, "nothing" for bytes that complete no frame or a frame within
\* 33 ms of the last, "frame" for a frame to push, which is stamped with
\* host_time_now_ns(); dt is the time since the clock was last read
ReaderRead(r, got, dt) ==
    /\ preview.readers[r].pc = "read"
    /\ got = "frame" => Len(pushed) + Cardinality(reading) <= MaxPush
    /\ preview' =
          IF got = "eof" THEN [preview EXCEPT !.readers[r].pc = "done"]
          ELSE IF got = "nothing" THEN [preview EXCEPT !.readers[r].pc = "loop"]
          ELSE [preview EXCEPT !.readers[r].pc = "push",
                               !.readers[r].pts_ns = preview.host_time + dt,
                               !.host_time = preview.host_time + dt]
    /\ UNCHANGED <<bufVars, sync_enabled, notPreview>>

\* lines 497-507: push_frame of the frame, then frame_id += 1
ReaderPush(r) ==
    /\ preview.readers[r].pc = "push"
    /\ push_frame_payload(CameraFramePayload(preview.readers[r].frame_id,
                                             preview.readers[r].pts_ns))
    /\ preview' = [preview EXCEPT !.readers[r].pc = "loop",
                                  !.readers[r].frame_id = @ + 1]
    /\ UNCHANGED notPreview

-----------------------------------------------------------------------------
(* Recorder: the calls *)

\* the history entry of a call by t that returns r; legal says whether the
\* state the call found matched the transition table, pre is that state
Returned(op, t, r, pre, e, capture) ==
    last' = [op |-> op, t |-> t, res |-> r, legal |-> TableAllows(op, pre),
             same |-> (Snap' = pre), fields |-> (Fields' = Fields), env |-> e,
             capture |-> capture,
             kept |-> (sck_state' = sck_state /\ procs' = procs)]

\* the checks the calls make under the state lock, and the error of each
start_check_absent == Ok

start_check ==
    IF is_recording THEN Err("Recording already in progress") ELSE Ok

pause_check_unless_idle ==
    IF ~is_recording THEN Err("No recording in progress") ELSE Ok

pause_check ==
    IF ~is_recording THEN Err("No recording in progress")
    ELSE IF is_paused THEN Err("Recording already paused")
    ELSE Ok

resume_check ==
    IF ~is_recording THEN Err("No recording in progress")
    ELSE IF ~is_paused THEN Err("Recording is not paused")
    ELSE Ok

stop_check ==
    IF ~is_recording THEN Err("No recording in progress") ELSE Ok

\* Recorder::start, lines 136-148: take the state lock, refuse when a
\* recording is in progress, otherwise claim the session and release the lock
StartLock(t, options) ==
    /\ UNCHANGED appVars
    /\ pc[t] = "idle"
    /\ UNCHANGED <<clockVars, sckVars, cbVars, bufVars, faulted>>
    /\ IF ~start_check.ok
       THEN /\ UNCHANGED <<recVars, pc, call>>
            /\ Returned("start", t, start_check, Snap, GoodEnv, None)
       ELSE /\ is_recording' = TRUE
            /\ is_paused' = FALSE
            /\ output_file' = build_output_path(t)
            /\ include_microphone' = options.include_microphone
            /\ include_camera' = options.include_camera
            /\ pc' = [pc EXCEPT ![t] = "resolve"]
            /\ call' = [call EXCEPT ![t] = [options |-> options,
                                            path |-> build_output_path(t),
                                            pre |-> Snap, res |-> Ok]]
            /\ UNCHANGED <<elapsed_task, last>>

\* Recorder::start, line 150: self.ffmpeg_locator.resolve()?
StartResolve(t, found) ==
    /\ UNCHANGED appVars
    /\ pc[t] = "resolve"
    /\ UNCHANGED <<recVars, clockVars, sckVars, cbVars, bufVars>>
    /\ IF ~found
       THEN /\ pc' = [pc EXCEPT ![t] = "idle"]
            /\ call' = [call EXCEPT ![t] = NoCall]
            /\ faulted' = TRUE
            /\ Returned("start", t,
                        Err("FFmpeg not found. Install via Homebrew or set FFMPEG_PATH."),
                        call[t].pre, GoodEnv, None)
       ELSE /\ pc' = [pc EXCEPT ![t] = "sck_start"]
            /\ UNCHANGED <<call, last, faulted>>

\* Recorder::start, lines 157-162: ScreenCaptureKitRecorder::start
StartSck(t, f) ==
    /\ UNCHANGED appVars
    /\ pc[t] = "sck_start"
    /\ UNCHANGED <<recVars, clockVars, bufVars, last>>
    /\ IF sck_state.some
       THEN \* mod.rs:45-47
            /\ pc' = [pc EXCEPT ![t] = "rollback"]
            /\ call' = [call EXCEPT ![t].res = Err("Already recording")]
            /\ UNCHANGED <<sckVars, cbVars, faulted>>
       ELSE \* mod.rs:49-59 and start_recording
            LET r == start_recording(call[t].options.include_microphone, f)
            IN  /\ recording_paused' = FALSE
                /\ call' = [call EXCEPT ![t].res = r.res]
                /\ fs' = r.created
                /\ UNCHANGED <<mic_muted, system_audio_muted, sync_enabled>>
                /\ IF r.res.ok
                   THEN /\ sck_state' = Some([mic_enabled |->
                                                call[t].options.include_microphone,
                                              output_path |-> call[t].path.v])
                        /\ procs' = procs \cup r.spawned
                        /\ video_frame_count' = 0
                        /\ audio_samples_written' = 0
                        /\ mic_samples_written' = 0
                        /\ sys_audio_file' = <<>>
                        /\ mic_audio_file' = <<>>
                        /\ mic_arrival' = NoArrival
                        /\ last_cb' = NoCb
                        /\ session_mutes' = {}
                        /\ handled' = 0
                        /\ pc' = [pc EXCEPT ![t] = "started"]
                        /\ UNCHANGED faulted
                   ELSE /\ procs' = procs \cup leaked(r.spawned)
                        /\ pc' = [pc EXCEPT ![t] = "rollback"]
                        /\ faulted' = TRUE
                        /\ UNCHANGED <<sck_state, cbVars>>

\* Recorder::start, lines 163-172: the Ok arm
StartOk(t) ==
    /\ UNCHANGED appVars
    /\ pc[t] = "started"
    /\ IF call[t].options.include_camera
       THEN SetSyncEnabled(TRUE)
       ELSE UNCHANGED <<sync_enabled, bufVars>>
    /\ clock' = clock_start(clock, now)
    /\ ran_for' = 0
    /\ pc' = [pc EXCEPT ![t] = "idle"]
    /\ call' = [call EXCEPT ![t] = NoCall]
    /\ UNCHANGED <<recVars, now, sck_state, mic_muted, system_audio_muted,
                   recording_paused, procs, fs, cbVars, faulted>>
    /\ Returned("start", t, Ok, call[t].pre, GoodEnv, Some(Ok))

\* Recorder::start, lines 173-178: the Err arm
StartRollback(t) ==
    /\ UNCHANGED appVars
    /\ pc[t] = "rollback"
    /\ is_recording' = FALSE
    /\ output_file' = None
    /\ pc' = [pc EXCEPT ![t] = "idle"]
    /\ call' = [call EXCEPT ![t] = NoCall]
    /\ UNCHANGED <<is_paused, include_microphone, include_camera, elapsed_task,
                   clockVars, sckVars, cbVars, bufVars, faulted>>
    /\ Returned("start", t, call[t].res, call[t].pre, GoodEnv,
                Some(call[t].res))

\* Recorder::pause
Pause(t) ==
    /\ UNCHANGED appVars
    /\ pc[t] = "idle"
    /\ UNCHANGED <<is_recording, output_file, include_microphone, include_camera,
                   elapsed_task, now, ran_for, sck_state, mic_muted,
                   system_audio_muted, sync_enabled, procs, fs, cbVars, bufVars,
                   pc, call, faulted>>
    /\ IF ~pause_check.ok
       THEN /\ UNCHANGED <<is_paused, recording_paused, clock>>
            /\ Returned("pause", t, pause_check, Snap, GoodEnv, None)
       ELSE /\ is_paused' = TRUE
            /\ recording_paused' = TRUE
            /\ clock' = clock_pause(clock, now)
            /\ Returned("pause", t, Ok, Snap, GoodEnv, None)

\* Recorder::resume
Resume(t) ==
    /\ UNCHANGED appVars
    /\ pc[t] = "idle"
    /\ UNCHANGED <<is_recording, output_file, include_microphone, include_camera,
                   elapsed_task, now, ran_for, sck_state, mic_muted,
                   system_audio_muted, sync_enabled, procs, fs, cbVars, bufVars,
                   pc, call, faulted>>
    /\ IF ~resume_check.ok
       THEN /\ UNCHANGED <<is_paused, recording_paused, clock>>
            /\ Returned("resume", t, resume_check, Snap, GoodEnv, None)
       ELSE /\ is_paused' = FALSE
            /\ recording_paused' = FALSE
            /\ clock' = clock_resume(clock, now)
            /\ Returned("resume", t, Ok, Snap, GoodEnv, None)

\* everything of the application but the tickers
notTicker == <<cmd, events, settings_file, settings_last, shortcut, parsed,
               offsets, filters, ratio, tempo, ticking, stopping, writers,
               preview, audio_layout, locking>>

\* Recorder::stop_elapsed_task (recording.rs:294-302): the registered ticker
\* is sent `true` on its channel and its handle is aborted, neither awaited
stop_elapsed_task(tk) ==
    IF tk.task = "none" THEN tk
    ELSE [tk EXCEPT !.task = "none", !.stopped = @ \cup {tk.task}]

\* Recorder::stop, with ScreenCaptureKitRecorder::stop and stop_recording
Stop(t, e) ==
    /\ UNCHANGED notTicker
    /\ ticker' = IF stop_check.ok /\ sck_state.some /\ stop_result(fs, e).ok
                 THEN stop_elapsed_task(ticker)
                 ELSE ticker
    /\ pc[t] = "idle"
    /\ UNCHANGED <<now, pc, call>>
    /\ IF ~stop_check.ok
       THEN \* recording.rs:217-219
            /\ UNCHANGED <<recVars, clock, ran_for, sckVars, cbVars, bufVars,
                           faulted>>
            /\ Returned("stop", t, stop_check, Snap, GoodEnv, None)
       ELSE IF ~sck_state.some
       THEN \* mod.rs:63 clears the pause flag; take_state finds no session
            /\ recording_paused' = FALSE
            /\ faulted' = TRUE
            /\ UNCHANGED <<recVars, clock, ran_for, sck_state, mic_muted,
                           system_audio_muted, sync_enabled, procs, fs, cbVars,
                           bufVars>>
            /\ Returned("stop", t, Err("No active recording"), Snap,
                        GoodEnv, Some(Err("No active recording")))
       ELSE /\ recording_paused' = FALSE
            /\ sck_state' = None
            /\ procs' = procs \ {"video", "mic", "mic_reader"}
            /\ fs' = stop_files(fs, e)
            /\ UNCHANGED <<mic_muted, system_audio_muted>>
            \* the writers and counters of the session go with its RecordingState
            /\ video_frame_count' = 0
            /\ audio_samples_written' = 0
            /\ mic_samples_written' = 0
            /\ sys_audio_file' = <<>>
            /\ mic_audio_file' = <<>>
            /\ mic_arrival' = NoArrival
            /\ last_cb' = NoCb
            /\ session_mutes' = {}
            /\ handled' = 0
            /\ IF stop_result(fs, e).ok
               THEN \* recording.rs:222-239
                    /\ SetSyncEnabled(FALSE)
                    /\ elapsed_task' = FALSE
                    /\ is_recording' = FALSE
                    /\ is_paused' = FALSE
                    /\ output_file' = None
                    /\ include_microphone' = FALSE
                    /\ include_camera' = FALSE
                    /\ clock' = clock_stop(clock)
                    /\ ran_for' = 0
                    /\ UNCHANGED faulted
               ELSE \* recording.rs:221: the ? returns the capture side's error
                    /\ faulted' = TRUE
                    /\ UNCHANGED <<recVars, clock, ran_for, sync_enabled, bufVars>>
            /\ Returned("stop", t, stop_result(fs, e), Snap, e,
                        Some(stop_result(fs, e)))

-----------------------------------------------------------------------------
(* stop_recording, step by step *)

notStop == <<recVars, clockVars, mic_muted, system_audio_muted,
             recording_paused, sync_enabled, cbVars, bufVars, call, faulted,
             cmd, events, settings_file, settings_last, shortcut, parsed,
             offsets, filters, ratio, tempo, ticking, threadVars>>

\* caller t has finished a step with its local `state` equal to st; the
\* entry keeps the children alive and the shared STATE right after the step
StopStep(t, step, st, res) ==
    stopping' = [state |-> [stopping.state EXCEPT ![t] = st],
                 steps |-> Append(stopping.steps,
                                  [t |-> t, step |-> step, state |-> st,
                                   procs |-> procs', session |-> sck_state',
                                   res |-> res])]

\* lines 14-20: take_state() under the STATE lock, or "No active recording";
\* e is what the environment will do to this stop
StopTake(t, e) ==
    /\ pc[t] = "idle"
    /\ \A i \in 1..Len(stopping.steps) : stopping.steps[i].t # t
    /\ UNCHANGED <<notStop, procs, fs>>
    /\ IF ~sck_state.some
       THEN /\ UNCHANGED <<sck_state, pc>>
            /\ StopStep(t, "refused", None, Some(Err("No active recording")))
            /\ Returned("stop_recording", t, Err("No active recording"), Snap,
                        GoodEnv, Some(Err("No active recording")))
       ELSE /\ sck_state' = None
            /\ pc' = [pc EXCEPT ![t] = "stop_capture"]
            /\ StopStep(t, "take",
                        Some([ffmpeg_process |-> "running",
                              mic_process |-> sck_state.v.mic_enabled,
                              mic_proc |-> "none",
                              signals |-> [video |-> <<>>, mic |-> <<>>],
                              elapsed |-> [video |-> 0, mic |-> 0],
                              video_writer |-> TRUE, audio_writer |-> TRUE,
                              env |-> e]), None)
            /\ UNCHANGED last

\* STEP 1, line 24: state.stream.stop_capture(), its result ignored
StopCapture(t) ==
    /\ pc[t] = "stop_capture"
    /\ UNCHANGED <<notStop, sck_state, procs, fs, last>>
    /\ pc' = [pc EXCEPT ![t] = "sleep"]
    /\ StopStep(t, "stop_capture", stopping.state[t], None)

\* STEP 2, line 28: thread::sleep(100 ms) for the callbacks in flight
StopSleep(t) ==
    /\ pc[t] = "sleep"
    /\ UNCHANGED <<notStop, sck_state, procs, fs, last>>
    /\ pc' = [pc EXCEPT ![t] = "close"]
    /\ StopStep(t, "sleep", stopping.state[t], None)

\* STEP 3, lines 32-41: both writers set to None, which drops the encoder's
\* stdin and the system-audio file
StopClose(t) ==
    /\ pc[t] = "close"
    /\ UNCHANGED <<notStop, sck_state, procs, fs, last>>
    /\ pc' = [pc EXCEPT ![t] = "wait_video"]
    /\ StopStep(t, "close",
                Some([stopping.state[t].v EXCEPT !.video_writer = FALSE,
                                                 !.audio_writer = FALSE]), None)

\* the bounds of the two wait loops (stop.rs:54, 84) and the sleep between
\* two calls of try_wait (60, 89), in milliseconds
ENCODER_WAIT_MS == 5000
MIC_WAIT_MS == 3000
POLL_MS == 100

\* the loop caller t is in, and its bound
wait_loop(t) == IF pc[t] = "wait_video" THEN "video" ELSE "mic"
wait_bound(t) == IF pc[t] = "wait_video" THEN ENCODER_WAIT_MS ELSE MIC_WAIT_MS

\* a pass through a wait loop in which time does not count
StopPoll_timeless(t) ==
    /\ pc[t] \in {"wait_video", "wait_mic"}
    /\ stopping.state[t].v.elapsed[wait_loop(t)] <= wait_bound(t)
    /\ UNCHANGED <<notStop, sck_state, procs, fs, last, pc, stopping>>

\* one pass through a wait loop with the child still running and the bound
\* not passed (53-61, 83-90): try_wait returns Ok(None), elapsed() is within
\* the bound, and the thread sleeps for 100 ms
StopPoll(t) ==
    /\ pc[t] \in {"wait_video", "wait_mic"}
    /\ stopping.state[t].v.elapsed[wait_loop(t)] <= wait_bound(t)
    /\ stopping' = [stopping EXCEPT
                       !.state[t].v.elapsed[wait_loop(t)] = @ + POLL_MS]
    /\ UNCHANGED <<notStop, sck_state, procs, fs, last, pc>>

\* the signals stop_recording sends to the encoder child: none to a child
\* that has exited (49-52), else Child::kill, which is SIGKILL (56, 63)
video_signals(outcome) ==
    IF outcome = "exited" THEN <<>> ELSE <<"SIGKILL">>

\* the signals it sends to the microphone child: kill -INT (73), and
\* Child::kill to a child that has not exited (85, 92)
mic_signals(outcome) ==
    IF outcome = "exited" THEN <<"SIGINT">> ELSE <<"SIGINT", "SIGKILL">>

\* the wait loop of STEP 4 leaving the encoder alive when try_wait fails
StopWaitVideo_without_kill(t, outcome) ==
    /\ pc[t] = "wait_video"
    /\ outcome = "timeout" =>
          stopping.state[t].v.elapsed.video > ENCODER_WAIT_MS
    /\ UNCHANGED <<notStop, sck_state, last>>
    /\ procs' = IF outcome = "error" THEN procs ELSE procs \ {"video"}
    /\ fs' = after_encoder(fs, stopping.state[t].v.env)
    /\ pc' = [pc EXCEPT ![t] = IF stopping.state[t].v.mic_process
                               THEN "wait_mic" ELSE "mux"]
    /\ StopStep(t, "wait_video",
                Some([stopping.state[t].v EXCEPT
                         !.ffmpeg_process = outcome,
                         !.signals.video = video_signals(outcome)]),
                None)

\* STEP 4, lines 47-67: the loop ends when the encoder child has exited
\* (49-52), has been killed and waited for after 5 s (54-58), or has been
\* killed after try_wait failed (62-65)
StopWaitVideo(t, outcome) ==
    /\ pc[t] = "wait_video"
    /\ outcome = "timeout" =>
          stopping.state[t].v.elapsed.video > ENCODER_WAIT_MS
    /\ UNCHANGED <<notStop, sck_state, last>>
    /\ procs' = procs \ {"video"}
    /\ fs' = after_encoder(fs, stopping.state[t].v.env)
    /\ pc' = [pc EXCEPT ![t] = IF stopping.state[t].v.mic_process
                               THEN "wait_mic" ELSE "mux"]
    /\ StopStep(t, "wait_video",
                Some([stopping.state[t].v EXCEPT
                         !.ffmpeg_process = outcome,
                         !.signals.video = video_signals(outcome)]),
                None)

\* STEP 5, lines 70-97: mic_process.take(), kill -INT, and the loop that ends
\* when the microphone child has exited (79-82), has been killed and waited
\* for after 3 s (84-88), or has been killed after try_wait failed (91-94);
\* its reader thread ends with its stdout
StopWaitMic(t, outcome) ==
    /\ pc[t] = "wait_mic"
    /\ outcome = "timeout" => stopping.state[t].v.elapsed.mic > MIC_WAIT_MS
    /\ UNCHANGED <<notStop, sck_state, fs, last>>
    /\ procs' = procs \ {"mic", "mic_reader"}
    /\ pc' = [pc EXCEPT ![t] = "mux"]
    /\ StopStep(t, "wait_mic",
                Some([stopping.state[t].v EXCEPT
                         !.mic_process = FALSE,
                         !.mic_proc = outcome,
                         !.signals.mic = mic_signals(outcome)]), None)

\* STEP 6, lines 101-106: mux_final_video
StopMux(t) ==
    /\ pc[t] = "mux"
    /\ UNCHANGED <<notStop, sck_state, procs, last>>
    /\ fs' = after_mux(fs, stopping.state[t].v.env)
    /\ pc' = [pc EXCEPT ![t] = "return"]
    /\ StopStep(t, "mux", stopping.state[t], None)

\* lines 109-132: the temp files removed, the video-only copy after a failed
\* mux, and the result; the RecordingState is dropped
StopReturn(t) ==
    LET env == stopping.state[t].v.env
        files == after_copy(after_cleanup(fs, env), env)
        res == IF "output" \in files THEN Ok ELSE Err("Output file not created")
    IN  /\ pc[t] = "return"
        /\ UNCHANGED <<notStop, sck_state, procs>>
        /\ fs' = files
        /\ pc' = [pc EXCEPT ![t] = "idle"]
        /\ StopStep(t, "return", None, Some(res))
        /\ Returned("stop_recording", t, res, Snap, env, Some(res))

\* Recorder::set_mic_muted -> ScreenCaptureKitRecorder::set_mic_muted; the
\* setters return nothing, so there is no result to record
SetMicMuted(t, muted) ==
    /\ pc[t] = "idle"
    /\ mic_muted' = muted
    /\ session_mutes' = IF sck_state.some THEN session_mutes \cup {"mic"}
                                          ELSE session_mutes
    /\ UNCHANGED <<recVars, clockVars, sck_state, system_audio_muted,
                   recording_paused, sync_enabled, procs, fs, video_frame_count,
                   audio_samples_written, mic_samples_written, sys_audio_file,
                   mic_audio_file, mic_arrival, last_cb, handled, bufVars,
                   callVars>>

\* Recorder::set_system_audio_muted
SetSystemAudioMuted(t, muted) ==
    /\ pc[t] = "idle"
    /\ system_audio_muted' = muted
    /\ session_mutes' = IF sck_state.some THEN session_mutes \cup {"audio"}
                                          ELSE session_mutes
    /\ UNCHANGED <<recVars, clockVars, sck_state, mic_muted, recording_paused,
                   sync_enabled, procs, fs, video_frame_count,
                   audio_samples_written, mic_samples_written, sys_audio_file,
                   mic_audio_file, mic_arrival, last_cb, handled, bufVars,
                   callVars>>

\* Recorder::start_elapsed_task: spawns the ticker unless one is running
StartElapsedTask(t) ==
    /\ UNCHANGED notTicker
    /\ pc[t] = "idle"
    /\ elapsed_task' = TRUE
    /\ ticker' = IF elapsed_task THEN ticker
                 ELSE [ticker EXCEPT !.task = "spawned"]
    /\ UNCHANGED <<is_recording, is_paused, output_file, include_microphone,
                   include_camera, clockVars, sckVars, cbVars, bufVars, pc, call,
                   faulted>>
    /\ Returned("start_elapsed_task", t, Ok, Snap, GoodEnv, None)

\* start() has succeeded and no stop() has ended the session
SessionStarted == is_recording /\ sck_state.some /\ pc["t1"] = "idle"

\* the registered ticker task (recording.rs:268-288) is polled: its first
\* poll, or its interval has fired; an aborted task is not polled again
TickerPoll ==
    /\ ticker.task \in {"spawned", "waiting"}
    /\ ticker' = [ticker EXCEPT !.task = "emitting"]
    /\ UNCHANGED <<recVars, clockVars, sckVars, cbVars, bufVars, pc, call, last,
                   faulted, notTicker>>

\* lines 270 and 277: app.emit("recording-elapsed", ...), and back to the
\* select, by the registered ticker or by one that stop_elapsed_task found
\* there; the entry keeps whether the ticker had been stopped by then and
\* whether a start() had succeeded since
TickerEmit(stopped) ==
    /\ IF stopped THEN "emitting" \in ticker.stopped
                  ELSE ticker.task = "emitting"
    /\ ticker' = [ticker EXCEPT
                     !.task = IF stopped THEN @ ELSE "waiting",
                     !.stopped = IF stopped
                                 THEN (@ \ {"emitting"}) \cup {"waiting"}
                                 ELSE @,
                     !.emitted = Append(@, [stopped |-> stopped,
                                            started |-> SessionStarted])]
    /\ UNCHANGED <<recVars, clockVars, sckVars, cbVars, bufVars, pc, call, last,
                   faulted, notTicker>>

\* a stopped ticker ends at its next await after the abort, or when
\* rx.changed() hands it `true` (281-285)
TickerEnd(at) ==
    /\ at \in ticker.stopped
    /\ at \in {"spawned", "waiting"}
    /\ ticker' = [ticker EXCEPT !.stopped = @ \ {at}]
    /\ UNCHANGED <<recVars, clockVars, sckVars, cbVars, bufVars, pc, call, last,
                   faulted, notTicker>>

\* Tauri commands (commands/mod.rs), served one at a time: a command is
\* invoked once the previous one has returned and its background task, if
\* any, has finished
Invoke(name, options) ==
    /\ cmd.done
    /\ cmd.task # "pending"
    /\ pc["t1"] = "idle"
    /\ cmd' = [NoCmd EXCEPT !.name = name, !.options = options,
                            !.done = FALSE]
    /\ events' = <<>>
    /\ last' = NoLast
    /\ UNCHANGED <<recVars, clockVars, sckVars, cbVars, bufVars, pc, call,
                   faulted, ioVars>>

\* the command is inside its call of the Recorder
Serving(name) == cmd.name = name /\ ~cmd.done /\ last.op = "none"

\* the errors of the steps around the Recorder call
CommandErr(kind, m) == [ok |-> FALSE, kind |-> kind, msg |-> m]

notRecorder == <<recVars, clockVars, sckVars, cbVars, bufVars, pc, call, last,
                 faulted, ioVars>>

\* start_recording, lines 36-54, after Recorder::start has returned: its
\* error is returned; otherwise "recording-started" is emitted and, with the
\* camera, apply_camera_overlay_visibility shows the overlay; emit_ok and
\* overlay_ok say whether the two ? steps succeed
StartRecordingReturn(emit_ok, overlay_ok) ==
    /\ cmd.name = "start_recording"
    /\ ~cmd.done
    /\ last.op = "start"
    /\ cmd' = [cmd EXCEPT
                 !.done = TRUE,
                 !.res = IF ~last.res.ok THEN last.res
                         ELSE IF ~emit_ok
                         THEN CommandErr("Tauri", "emit failed")
                         ELSE IF cmd.options.include_camera /\ ~overlay_ok
                         THEN CommandErr("Camera",
                                         "Camera overlay window not found")
                         ELSE Ok]
    /\ events' = IF last.res.ok /\ emit_ok
                 THEN Append(events, "recording-started") ELSE events
    /\ UNCHANGED notRecorder

\* pause_recording and resume_recording after Recorder::pause / resume
PauseResumeReturn(emit_ok) ==
    /\ cmd.name \in {"pause_recording", "resume_recording"}
    /\ ~cmd.done
    /\ last.op \in {"pause", "resume"}
    /\ cmd' = [cmd EXCEPT
                 !.done = TRUE,
                 !.res = IF ~last.res.ok THEN last.res
                         ELSE IF ~emit_ok
                         THEN CommandErr("Tauri", "emit failed")
                         ELSE Ok]
    /\ events' = IF last.res.ok /\ emit_ok
                 THEN Append(events, IF last.op = "pause"
                                     THEN "recording-paused"
                                     ELSE "recording-resumed")
                 ELSE events
    /\ UNCHANGED notRecorder

\* stop_recording, lines 139-230, after Recorder::stop has returned: its
\* error is returned; otherwise the settings are loaded, the overlay is
\* brought to the saved setting, "recording-stopped" is emitted and the
\* background task is spawned; each of the three ? steps may fail and
\* return its error at once.  The preview that the overlay step may stop
\* has nothing buffered here: Recorder::stop has switched sync off.
StopRecordingReturn(settings_ok, overlay_ok, emit_ok) ==
    /\ cmd.name = "stop_recording"
    /\ ~cmd.done
    /\ last.op = "stop"
    /\ LET reached == last.res.ok /\ settings_ok /\ overlay_ok /\ emit_ok
       IN  /\ cmd' = [cmd EXCEPT
                        !.done = TRUE,
                        !.res = IF ~last.res.ok THEN last.res
                                ELSE IF ~settings_ok
                                THEN CommandErr("Settings",
                                                "Failed to parse settings")
                                ELSE IF ~overlay_ok
                                THEN CommandErr("Camera",
                                         "Camera overlay window not found")
                                ELSE IF ~emit_ok
                                THEN CommandErr("Tauri", "emit failed")
                                ELSE Ok,
                        !.stopped = last.res.ok,
                        !.task = IF reached THEN "pending" ELSE "none"]
           /\ events' = IF reached THEN Append(events, "recording-stopped")
                                   ELSE events
    /\ UNCHANGED notRecorder

\* the task spawned by stop_recording, lines 163-228: the downloads
\* directory is looked up, the temp file must exist, it is copied to the
\* final path, the copy must exist, and only then is the temp file removed
\* (the result of remove_file is dropped) and "recording-saved" emitted;
\* every other way out emits "recording-error"
FinalizeTask(downloads_ok, copy, remove_ok) ==
    /\ cmd.task = "pending"
    /\ LET saved == downloads_ok /\ "output" \in fs /\ copy = "copied"
           wrote == downloads_ok /\ "output" \in fs /\ copy # "failed"
       IN  /\ fs' = (IF saved /\ remove_ok THEN fs \ {"output"} ELSE fs)
                        \cup (IF saved THEN {"final"} ELSE {})
           /\ cmd' = [cmd EXCEPT !.task = "done",
                                 !.copied = wrote,
                                 !.removed = saved /\ remove_ok]
           /\ events' = Append(events, IF saved THEN "recording-saved"
                                                ELSE "recording-error")
    /\ UNCHANGED <<recVars, clockVars, sck_state, mic_muted,
                   system_audio_muted, recording_paused, sync_enabled, procs,
                   cbVars, bufVars, pc, call, last, faulted, ioVars>>

-----------------------------------------------------------------------------
(* AppSettings and the SettingsStore *)

\* strings are sequences of characters
default_immersive_shortcut == <<"O", "p", "t", "i", "o", "n", "+", "I">>

\* the strings tried: the default shortcut and every string of up to MaxStr
\* characters out of the two that JSON escapes, the double quote and the
\* backslash
Chars == {"\"", "\\"}
Strings ==
    {default_immersive_shortcut} \cup UNION {[1..n -> Chars] : n \in 0..MaxStr}

AppSettings ==
    [mic_enabled : BOOLEAN, camera_enabled : BOOLEAN,
     immersive_shortcut : Strings,
     save_location : {None} \cup {Some(s) : s \in Strings}]

\* impl Default for AppSettings
AppSettingsDefault ==
    [mic_enabled |-> FALSE, camera_enabled |-> FALSE,
     immersive_shortcut |-> default_immersive_shortcut,
     save_location |-> None]

\* a JSON value as written in the file; a string is kept as the characters
\* between its quotes
json_bool(b) == [t |-> "bool", b |-> b, text |-> <<>>]
json_null == [t |-> "null", b |-> FALSE, text |-> <<>>]
json_string(text) == [t |-> "string", b |-> FALSE, text |-> text]

\* serde_json writing a string: the quote and the backslash are escaped
escape_nothing(s) == s

RECURSIVE escape(_)
escape(s) ==
    IF s = <<>> THEN <<>>
    ELSE (IF Head(s) \in {"\"", "\\"} THEN <<"\\", Head(s)>> ELSE <<Head(s)>>)
         \o escape(Tail(s))

\* serde_json reading the characters between the quotes of a string: a
\* backslash must be followed by an escapable character, a bare quote ends
\* the string before its end
RECURSIVE unescape(_)
unescape(text) ==
    IF text = <<>> THEN [ok |-> TRUE, v |-> <<>>]
    ELSE IF Head(text) = "\""
    THEN [ok |-> FALSE, v |-> <<>>]
    ELSE IF Head(text) = "\\"
    THEN IF Len(text) >= 2 /\ text[2] \in {"\"", "\\"}
         THEN LET rest == unescape(SubSeq(text, 3, Len(text)))
              IN  [ok |-> rest.ok, v |-> <<text[2]>> \o rest.v]
         ELSE [ok |-> FALSE, v |-> <<>>]
    ELSE LET rest == unescape(Tail(text))
         IN  [ok |-> rest.ok, v |-> <<Head(text)>> \o rest.v]

\* what a file holds: bytes that are not UTF-8, text that is not a JSON
\* object, or a JSON object with its members
NotUtf8 == [kind |-> "bytes", members |-> <<>>]
NotJson == [kind |-> "text", members |-> <<>>]
JsonObject(members) == [kind |-> "json", members |-> members]

\* serde_json::to_string_pretty of an AppSettings (rename_all = "camelCase")
to_string_pretty(s) ==
    JsonObject(
        [k \in {"micEnabled", "cameraEnabled", "immersiveShortcut",
                "saveLocation"} |->
            CASE k = "micEnabled" -> json_bool(s.mic_enabled)
              [] k = "cameraEnabled" -> json_bool(s.camera_enabled)
              [] k = "immersiveShortcut" ->
                    json_string(escape(s.immersive_shortcut))
              [] OTHER -> IF s.save_location.some
                          THEN json_string(escape(s.save_location.v))
                          ELSE json_null])

OkValue(v) == [ok |-> TRUE, kind |-> "", msg |-> "", v |-> v]

\* serde_json::from_str::<AppSettings>: the two booleans are required, the
\* shortcut falls back to its default when absent, an absent or null save
\* location is None; anything else is a parse error
from_str(content) ==
    LET m == content.members
        has(k) == k \in DOMAIN m
        is_bool(k) == has(k) /\ m[k].t = "bool"
        is_string(k) == has(k) /\ m[k].t = "string" /\ unescape(m[k].text).ok
        parses ==
            /\ content.kind = "json"
            /\ is_bool("micEnabled")
            /\ is_bool("cameraEnabled")
            /\ has("immersiveShortcut") => is_string("immersiveShortcut")
            /\ has("saveLocation") =>
                  is_string("saveLocation") \/ m["saveLocation"].t = "null"
    IN  IF ~parses
        THEN CommandErr("Settings", "Failed to parse settings")
        ELSE OkValue(
               [mic_enabled |-> m["micEnabled"].b,
                camera_enabled |-> m["cameraEnabled"].b,
                immersive_shortcut |->
                    IF has("immersiveShortcut")
                    THEN unescape(m["immersiveShortcut"].text).v
                    ELSE default_immersive_shortcut,
                save_location |->
                    IF has("saveLocation") /\ m["saveLocation"].t = "string"
                    THEN Some(unescape(m["saveLocation"].text).v)
                    ELSE None])

notStore == <<recVars, clockVars, sckVars, cbVars, bufVars, pc, call, last,
              faulted, cmd, events, shortcut, parsed, offsets, filters, ratio,
              tempo, ticking, stopping, threadVars>>

\* SettingsStore::load; read_ok says whether the file, when it exists, can
\* be read; read_to_string also fails on bytes that are not UTF-8
SettingsLoad(read_ok) ==
    /\ settings_last' =
          [op |-> "load",
           res |-> IF ~settings_file.some THEN OkValue(AppSettingsDefault)
                   ELSE IF ~read_ok
                   THEN CommandErr("Io", "read failed")
                   ELSE IF settings_file.v.kind = "bytes"
                   THEN CommandErr("Io",
                                   "stream did not contain valid UTF-8")
                   ELSE from_str(settings_file.v),
           found |-> settings_file.some,
           read_ok |-> read_ok,
           saved |-> settings_last.saved,
           overwrote |-> settings_last.overwrote]
    /\ UNCHANGED <<settings_file, notStore>>

\* SettingsStore::save; io is the step that fails, if any: create_dir_all,
\* opening the file, or writing it once it has been truncated
SettingsSave(s, io) ==
    /\ settings_file' =
          CASE io = "ok" -> Some(to_string_pretty(s))
            [] io = "write" -> Some(NotJson)
            [] OTHER -> settings_file
    /\ settings_last' =
          [op |-> "save",
           res |-> IF io = "ok" THEN Ok ELSE CommandErr("Io", io),
           found |-> settings_file.some,
           read_ok |-> TRUE,
           saved |-> CASE io = "ok" -> Some(s)
                       [] io = "write" -> None
                       [] OTHER -> settings_last.saved,
           overwrote |-> CASE io = "ok" ->
                                /\ settings_last.saved.some
                                /\ settings_last.saved.v # s
                           [] io = "write" -> FALSE
                           [] OTHER -> settings_last.overwrote]
    /\ UNCHANGED notStore

-----------------------------------------------------------------------------
(* The immersive-mode shortcut: parse_shortcut *)

CMD_KEY == 256
SHIFT_KEY == 512
OPTION_KEY == 2048
CONTROL_KEY == 4096

LowerCase == <<"a", "b", "c", "d", "e", "f", "g", "h", "i", "j", "k", "l", "m", "n", "o", "p", "q", "r", "s", "t", "u", "v", "w", "x", "y", "z">>
UpperCase == <<"A", "B", "C", "D", "E", "F", "G", "H", "I", "J", "K", "L", "M", "N", "O", "P", "Q", "R", "S", "T", "U", "V", "W", "X", "Y", "Z">>

\* str::to_ascii_lowercase and str::to_ascii_uppercase
to_ascii_lowercase(s) ==
    [i \in 1..Len(s) |->
        IF \E k \in 1..26 : UpperCase[k] = s[i]
        THEN LowerCase[CHOOSE k \in 1..26 : UpperCase[k] = s[i]] ELSE s[i]]

to_ascii_uppercase(s) ==
    [i \in 1..Len(s) |->
        IF \E k \in 1..26 : LowerCase[k] = s[i]
        THEN UpperCase[CHOOSE k \in 1..26 : LowerCase[k] = s[i]] ELSE s[i]]

\* str::split('+'): the segments between the separators, empty ones included
RECURSIVE split(_, _)
split(s, sep) ==
    IF \A i \in 1..Len(s) : s[i] # sep THEN <<s>>
    ELSE LET i == CHOOSE i \in 1..Len(s) :
                     s[i] = sep /\ \A j \in 1..(i - 1) : s[j] # sep
         IN  <<SubSeq(s, 1, i - 1)>> \o split(SubSeq(s, i + 1, Len(s)), sep)

\* str::trim
str_trim(s) ==
    LET keep == {i \in 1..Len(s) : s[i] # " "}
    IN  IF keep = {} THEN <<>>
        ELSE SubSeq(s, CHOOSE i \in keep : \A j \in keep : i <= j,
                       CHOOSE i \in keep : \A j \in keep : i >= j)

\* the modifier a lower-cased segment names, 0 when it names none; the three
\* signs are the place-of-interest, option and shift key symbols
modifier_for(segment) ==
    CASE segment \in {<<"c", "o", "m", "m", "a", "n", "d">>, <<"c", "m", "d">>, <<"U+2318">>} -> CMD_KEY
      [] segment \in {<<"c", "o", "n", "t", "r", "o", "l">>, <<"c", "t", "r", "l">>, <<"^">>} -> CONTROL_KEY
      [] segment \in {<<"o", "p", "t", "i", "o", "n">>, <<"a", "l", "t">>, <<"U+2325">>} -> OPTION_KEY
      [] segment \in {<<"s", "h", "i", "f", "t">>, <<"U+21E7">>} -> SHIFT_KEY
      [] OTHER -> 0

\* modifiers |= mask, for a mask of one bit
bit_or(modifiers, mask) ==
    IF (modifiers \div mask) % 2 = 1 THEN modifiers ELSE modifiers + mask

\* key_code_for: the virtual key codes of the supported keys (U+0060 is the
\* grave accent)
KeyCodes ==
    {<<<<"A">>, 0>>,
     <<<<"S">>, 1>>,
     <<<<"D">>, 2>>,
     <<<<"F">>, 3>>,
     <<<<"H">>, 4>>,
     <<<<"G">>, 5>>,
     <<<<"Z">>, 6>>,
     <<<<"X">>, 7>>,
     <<<<"C">>, 8>>,
     <<<<"V">>, 9>>,
     <<<<"B">>, 11>>,
     <<<<"Q">>, 12>>,
     <<<<"W">>, 13>>,
     <<<<"E">>, 14>>,
     <<<<"R">>, 15>>,
     <<<<"Y">>, 16>>,
     <<<<"T">>, 17>>,
     <<<<"1">>, 18>>,
     <<<<"2">>, 19>>,
     <<<<"3">>, 20>>,
     <<<<"4">>, 21>>,
     <<<<"6">>, 22>>,
     <<<<"5">>, 23>>,
     <<<<"=">>, 24>>,
     <<<<"9">>, 25>>,
     <<<<"7">>, 26>>,
     <<<<"-">>, 27>>,
     <<<<"8">>, 28>>,
     <<<<"0">>, 29>>,
     <<<<"]">>, 30>>,
     <<<<"O">>, 31>>,
     <<<<"U">>, 32>>,
     <<<<"[">>, 33>>,
     <<<<"I">>, 34>>,
     <<<<"P">>, 35>>,
     <<<<"L">>, 37>>,
     <<<<"J">>, 38>>,
     <<<<"'">>, 39>>,
     <<<<"K">>, 40>>,
     <<<<";">>, 41>>,
     <<<<"\\">>, 42>>,
     <<<<",">>, 43>>,
     <<<<"/">>, 44>>,
     <<<<"N">>, 45>>,
     <<<<"M">>, 46>>,
     <<<<".">>, 47>>,
     <<<<"U+0060">>, 50>>,
     <<<<"S", "P", "A", "C", "E">>, 49>>,
     <<<<"T", "A", "B">>, 48>>,
     <<<<"E", "N", "T", "E", "R">>, 36>>,
     <<<<"R", "E", "T", "U", "R", "N">>, 36>>,
     <<<<"E", "S", "C">>, 53>>,
     <<<<"E", "S", "C", "A", "P", "E">>, 53>>,
     <<<<"B", "A", "C", "K", "S", "P", "A", "C", "E">>, 51>>,
     <<<<"D", "E", "L", "E", "T", "E">>, 117>>,
     <<<<"A", "R", "R", "O", "W", "U", "P">>, 126>>,
     <<<<"U", "P">>, 126>>,
     <<<<"A", "R", "R", "O", "W", "D", "O", "W", "N">>, 125>>,
     <<<<"D", "O", "W", "N">>, 125>>,
     <<<<"A", "R", "R", "O", "W", "L", "E", "F", "T">>, 123>>,
     <<<<"L", "E", "F", "T">>, 123>>,
     <<<<"A", "R", "R", "O", "W", "R", "I", "G", "H", "T">>, 124>>,
     <<<<"R", "I", "G", "H", "T">>, 124>>,
     <<<<"F", "1">>, 122>>,
     <<<<"F", "2">>, 120>>,
     <<<<"F", "3">>, 99>>,
     <<<<"F", "4">>, 118>>,
     <<<<"F", "5">>, 96>>,
     <<<<"F", "6">>, 97>>,
     <<<<"F", "7">>, 98>>,
     <<<<"F", "8">>, 100>>,
     <<<<"F", "9">>, 101>>,
     <<<<"F", "1", "0">>, 109>>,
     <<<<"F", "1", "1">>, 103>>,
     <<<<"F", "1", "2">>, 111>>}

key_code_for(key) ==
    LET hit == {p \in KeyCodes : p[1] = to_ascii_uppercase(key)}
    IN  IF hit = {} THEN None ELSE Some((CHOOSE p \in hit : TRUE)[2])

\* the loop of parse_shortcut over the segments left, and its end
RECURSIVE parse_segments(_, _, _)
parse_segments(segments, modifiers, key_code) ==
    IF segments = <<>>
    THEN IF key_code.some
         THEN OkValue([key_code |-> key_code.v, modifiers |-> modifiers])
         ELSE CommandErr("Settings",
                         "Shortcut must include a non-modifier key")
    ELSE LET segment == Head(segments)
             mask == modifier_for(to_ascii_lowercase(segment))
         IN  IF mask # 0
             THEN parse_segments(Tail(segments), bit_or(modifiers, mask),
                                 key_code)
             ELSE IF key_code.some
             THEN CommandErr("Settings",
                             "Shortcut must include exactly one base key")
             ELSE IF ~key_code_for(segment).some
             THEN CommandErr("Settings", "Unsupported key")
             ELSE parse_segments(Tail(segments), modifiers,
                                 key_code_for(segment))

\* parse_shortcut: split on '+', trim, drop the empty segments
parse_shortcut(s) ==
    LET segments == split(s, "+")
        trimmed == [i \in 1..Len(segments) |-> str_trim(segments[i])]
    IN  parse_segments(SelectSeq(trimmed, LAMBDA x : x # <<>>), 0, None)

notParser == <<recVars, clockVars, sckVars, cbVars, bufVars, pc, call, last,
               faulted, cmd, events, settings_file, settings_last, shortcut,
               offsets, filters, ratio, tempo, ticking, stopping,
               threadVars>>

\* HotkeyManager handing the shortcut string to parse_shortcut
ParseShortcut ==
    /\ ~parsed.some
    /\ parsed' = Some(parse_shortcut(shortcut))
    /\ UNCHANGED notParser

\* the segments tried, and the shortcut strings: up to MaxSegments of them
\* joined by '+'
Segments == {<<"C", "m", "d">>, <<"s", "h", "i", "f", "t">>, <<" ", "A", "l", "t">>, <<"I">>, <<"F", "1">>, <<"F", "1", "3">>, <<>>}

RECURSIVE join(_)
join(segments) ==
    IF Len(segments) = 1 THEN segments[1]
    ELSE segments[1] \o <<"+">> \o join(Tail(segments))

Shortcuts ==
    {<<>>} \cup {join(segs) : segs \in UNION {[1..n -> Segments] :
                                               n \in 1..MaxSegments}}

-----------------------------------------------------------------------------
(* The mux: alignment of the audio sources *)

\* offsets are f64 seconds; the model counts them in units of 200 ns, so
\* that a millisecond is TicksPerMs units and a microsecond TicksPerUs
TicksPerMs == 5000
TicksPerUs == 5

\* f64::round of a non-negative quotient n / d: to the nearest integer, a
\* half away from zero
round_div(n, d) == (2 * n + d) \div (2 * d)

\* push_alignment_filter: the filter of one source, as the part of the
\* filter graph that says what is done to its head
push_alignment_filter_always(offset_seconds) ==
    LET offset == IF offset_seconds.some THEN offset_seconds.v ELSE 0
    IN  IF offset > 0
        THEN [filter |-> "adelay",
              delay_ms |-> IF round_div(offset, TicksPerMs) >= 1
                           THEN round_div(offset, TicksPerMs) ELSE 1,
              trim_us |-> 0]
        ELSE [filter |-> "atrim", delay_ms |-> 0,
              trim_us |-> round_div(-offset, TicksPerUs)]

push_alignment_filter(offset_seconds) ==
    LET offset == IF offset_seconds.some THEN offset_seconds.v ELSE 0
    IN  IF offset < TicksPerMs /\ -offset < TicksPerMs
        THEN [filter |-> "anull", delay_ms |-> 0, trim_us |-> 0]
        ELSE IF offset > 0
        THEN [filter |-> "adelay",
              delay_ms |-> IF round_div(offset, TicksPerMs) >= 1
                           THEN round_div(offset, TicksPerMs) ELSE 1,
              trim_us |-> 0]
        ELSE \* "{:.6}" prints the seconds to the microsecond
             [filter |-> "atrim", delay_ms |-> 0,
              trim_us |-> round_div(-offset, TicksPerUs)]

notMux == <<recVars, clockVars, sckVars, cbVars, bufVars, pc, call, last,
            faulted, cmd, events, settings_file, settings_last, shortcut,
            parsed, offsets, ratio, tempo, ticking, stopping, threadVars>>

\* mux_final_video, lines 108-131: the alignment filter of the system audio
\* and that of the microphone, each from its own offset
MuxFinalVideo ==
    /\ ~filters.some
    /\ filters' = Some([system |-> push_alignment_filter(offsets.system),
                        mic |-> push_alignment_filter(offsets.mic)])
    /\ UNCHANGED notMux

\* the offsets tried: none, and the multiples of 0.3502 ms up to
\* MaxOffsetSteps of them either way; none is half-way between two
\* milliseconds
OffsetSeconds ==
    {None} \cup {Some(k * 1751) : k \in (-MaxOffsetSteps)..MaxOffsetSteps}

-----------------------------------------------------------------------------
(* The mux: the tempo chain of the microphone *)

\* ratios and factors are f64; the model counts them in millionths, the
\* precision "{:.6}" writes a factor with
Millionths == 1000000
\* 0.0001, the distance from 1.0 within which no last factor is written
TEMPO_EPSILON == 100

\* the two loops of build_atempo_chain, lines 254-261, on the ratio n / d
\* millionths with d a power of two (halving and doubling an f64 are
\* exact): the factors pushed so far, then the last factor unless what is
\* left of the ratio is within 0.0001 of 1.0, written to the millionth
RECURSIVE atempo_factors(_, _, _)
atempo_factors(n, d, factors) ==
    IF n > 2 * Millionths * d
    THEN atempo_factors(n, 2 * d, Append(factors, 2 * Millionths))
    ELSE IF 2 * n < Millionths * d
    THEN atempo_factors(2 * n, d, Append(factors, Millionths \div 2))
    ELSE IF n - Millionths * d > TEMPO_EPSILON * d
            \/ Millionths * d - n > TEMPO_EPSILON * d
    THEN Append(factors, round_div(n, d))
    ELSE factors

\* build_atempo_chain: no factor for a ratio that is not positive (the
\* model has no infinite or NaN ratio)
build_atempo_chain(r) ==
    IF r <= 0 THEN <<>> ELSE atempo_factors(r, 1, <<>>)

notTempo == <<recVars, clockVars, sckVars, cbVars, bufVars, pc, call, last,
              faulted, cmd, events, settings_file, settings_last, shortcut,
              parsed, offsets, filters, ratio, ticking, stopping,
              threadVars>>

\* build_atempo_chain applied to the ratio
BuildAtempoChain ==
    /\ ~tempo.some
    /\ tempo' = Some(build_atempo_chain(ratio))
    /\ UNCHANGED notTempo

\* the ratios tried: the multiples of 0.100005 up to MaxRatioSteps of them,
\* and zero
Ratios == {k * 100005 : k \in 0..MaxRatioSteps}

\* time passes
Tick ==
    /\ now < MaxTime
    /\ now' = now + 1
    /\ ran_for' = IF clock.running THEN ran_for + 1 ELSE ran_for
    /\ UNCHANGED <<recVars, clock, sckVars, cbVars, bufVars, callVars>>

-----------------------------------------------------------------------------
(* The capture callbacks and the microphone reader *)

\* float samples are modelled in thousandths: 1000 is 1.0

\* float_to_s16: clamp to [-1.0, 1.0], scale by 32767.0, `as i16` truncates
\* toward zero
float_to_s16(sample) ==
    LET clamped == Min(Max(sample, -1000), 1000)
        scaled == clamped * 32767
    IN  IF scaled >= 0 THEN scaled \div 1000 ELSE -((-scaled) \div 1000)

\* i16::to_le_bytes
to_le_bytes(s16) ==
    LET u == s16 % 65536 IN <<u % 256, u \div 256>>

RECURSIVE convert_samples(_)
convert_samples(samples) ==
    IF samples = <<>> THEN <<>>
    ELSE to_le_bytes(float_to_s16(Head(samples))) \o convert_samples(Tail(samples))

\* convert_interleaved_buffers: every buffer in turn, sample by sample
RECURSIVE convert_interleaved_buffers(_)
convert_interleaved_buffers(planes) ==
    IF planes = <<>> THEN <<>>
    ELSE convert_samples(Head(planes).samples)
         \o convert_interleaved_buffers(Tail(planes))

\* the shortest plane
RECURSIVE min_plane_len(_)
min_plane_len(planes) ==
    IF planes = <<>> THEN 0
    ELSE IF Len(planes) = 1 THEN Len(planes[1].samples)
    ELSE Min(Len(planes[1].samples), min_plane_len(Tail(planes)))

\* one frame of convert_planar_buffers: sample frame_idx of every plane in turn
RECURSIVE planar_frame(_, _)
planar_frame(planes, frame_idx) ==
    IF planes = <<>> THEN <<>>
    ELSE to_le_bytes(float_to_s16(Head(planes).samples[frame_idx]))
         \o planar_frame(Tail(planes), frame_idx)

RECURSIVE planar_frames(_, _, _)
planar_frames(planes, frame_idx, frames_per_channel) ==
    IF frame_idx > frames_per_channel THEN <<>>
    ELSE planar_frame(planes, frame_idx)
         \o planar_frames(planes, frame_idx + 1, frames_per_channel)

\* convert_planar_buffers: frame by frame up to the shortest plane
convert_planar_buffers(planes) ==
    IF planes = <<>> THEN <<>>
    ELSE planar_frames(planes, 1, min_plane_len(planes))

\* more than one buffer, each of one channel
planar_layout(planes) ==
    Len(planes) > 1 /\ \A i \in 1..Len(planes) : planes[i].channels = 1

frames_per_channel(planes) ==
    IF planar_layout(planes) THEN min_plane_len(planes)
    ELSE IF planes = <<>> THEN 0
    ELSE IF planes[1].channels > 0
         THEN Len(planes[1].samples) \div planes[1].channels
         ELSE Len(planes[1].samples)

s16_data(planes) ==
    IF planar_layout(planes) THEN convert_planar_buffers(planes)
                             ELSE convert_interleaved_buffers(planes)

\* the mute of either source: every byte of the block becomes zero
mute_bytes_dropping(bytes, muted) == IF muted THEN <<>> ELSE bytes

mute_bytes(bytes, muted) ==
    IF muted THEN [i \in 1..Len(bytes) |-> 0] ELSE bytes

\* the pause check of the callbacks and of the reader; the handler reads
\* state::recording_paused(), the reader the recorder's AtomicBool
drops_never == FALSE

drops_while_paused == recording_paused

\* frames of a microphone chunk: len / (2 * max(channels, 1))
mic_frames(chunk) == Len(chunk) \div (2 * Max(MicChannels, 1))

\* the sample buffers delivered to the callbacks, and the reads of the reader
Plane(ch, samples) == [channels |-> ch, samples |-> samples]

AudioBlocks == { <<Plane(2, <<500, -2000>>)>>,
                 <<Plane(1, <<1000>>), Plane(1, <<-500, 0>>)>>,
                 <<>>,
                 <<Plane(1, <<>>)>> }

MicChunks == { <<1, 2, 3, 4>>, <<5, 6>> }

\* the stream and the counter a source writes
StreamOf(kind) ==
    IF kind = "audio" THEN sys_audio_file
    ELSE IF kind = "mic" THEN mic_audio_file
    ELSE <<>>

CounterOf(kind) ==
    IF kind = "audio" THEN audio_samples_written
    ELSE IF kind = "mic" THEN mic_samples_written
    ELSE video_frame_count

\* the history entry of a sample handled by a callback or by the reader:
\* what it found, and what the step did to the source's stream and counter
Handled(kind, planes, chunk, write_ok, muted) ==
    /\ handled' = handled + 1
    /\ last_cb' = [kind |-> kind, paused |-> recording_paused,
                   muted |-> muted, write_ok |-> write_ok, planes |-> planes,
                   chunk |-> chunk,
                   appended |-> SubSeq(StreamOf(kind)', Len(StreamOf(kind)) + 1,
                                       Len(StreamOf(kind)')),
                   delta |-> CounterOf(kind)' - CounterOf(kind),
                   file_kept |-> /\ Len(StreamOf(kind)') >= Len(StreamOf(kind))
                                 /\ SubSeq(StreamOf(kind)', 1, Len(StreamOf(kind)))
                                      = StreamOf(kind),
                   dropped_before |-> (last_cb.dropped_before
                                       \/ (last_cb.kind # "none" /\ last_cb.paused)),
                   session_mute |-> (kind \in session_mutes)]

notCb == <<recVars, clockVars, sck_state, mic_muted, system_audio_muted,
           recording_paused, sync_enabled, fs, session_mutes, bufVars, callVars>>

\* did_output_sample_buffer, Screen: one frame written to the encoder's
\* stdin unless paused; write_ok is false when the frame has no pixel buffer,
\* the buffer cannot be locked or the pipe refuses the write.  With camera
\* sync disabled the camera engine only notes the timestamp.
ScreenFrame(write_ok) ==
    /\ sck_state.some
    /\ handled < MaxSamples
    /\ LET writes == ~drops_while_paused /\ write_ok
       IN  video_frame_count' = IF writes THEN video_frame_count + 1
                                          ELSE video_frame_count
    /\ UNCHANGED <<audio_samples_written, mic_samples_written, sys_audio_file,
                   mic_audio_file, mic_arrival, procs, notCb>>
    /\ Handled("screen", <<>>, <<>>, write_ok, FALSE)

\* did_output_sample_buffer, Screen, with the pause check of line 39 moved
\* before the call of line 38
ScreenFrameSynced_pause_first(screen_pts_ns, write_ok) ==
    /\ sck_state.some
    /\ handled < MaxSamples
    /\ last_sync.emits < MaxTicks
    /\ IF recording_paused
       THEN UNCHANGED bufVars
       ELSE emit_for_screen_pts(screen_pts_ns)
    /\ LET writes == ~drops_while_paused /\ write_ok
       IN  video_frame_count' = IF writes THEN video_frame_count + 1
                                          ELSE video_frame_count
    /\ UNCHANGED <<audio_samples_written, mic_samples_written, sys_audio_file,
                   mic_audio_file, mic_arrival, procs, recVars, clockVars, sck_state,
                   mic_muted, system_audio_muted, recording_paused,
                   sync_enabled, fs, session_mutes, callVars>>
    /\ Handled("screen", <<>>, <<>>, write_ok, FALSE)

\* did_output_sample_buffer, Screen, in a session that has the camera: the
\* timestamp is handed to the camera sync engine (line 38; the function
\* called there hands it to CameraSyncHandle::emit_for_screen_pts), then
\* comes the pause check, and the frame is written unless paused
ScreenFrameSynced(screen_pts_ns, write_ok) ==
    /\ sck_state.some
    /\ handled < MaxSamples
    /\ last_sync.emits < MaxTicks
    /\ emit_for_screen_pts(screen_pts_ns)
    /\ LET writes == ~drops_while_paused /\ write_ok
       IN  video_frame_count' = IF writes THEN video_frame_count + 1
                                          ELSE video_frame_count
    /\ UNCHANGED <<audio_samples_written, mic_samples_written, sys_audio_file,
                   mic_audio_file, mic_arrival, procs, recVars, clockVars, sck_state,
                   mic_muted, system_audio_muted, recording_paused,
                   sync_enabled, fs, session_mutes, callVars>>
    /\ Handled("screen", <<>>, <<>>, write_ok, FALSE)

\* did_output_sample_buffer, Audio: one block converted to s16le and
\* appended to the system-audio file unless paused
AudioSample(planes, write_ok) ==
    /\ sck_state.some
    /\ handled < MaxSamples
    /\ LET out == mute_bytes(s16_data(planes), system_audio_muted)
           writes == /\ ~drops_while_paused
                     /\ planes # <<>>
                     /\ s16_data(planes) # <<>>
                     /\ write_ok
       IN  /\ sys_audio_file' = IF writes THEN sys_audio_file \o out
                                          ELSE sys_audio_file
           /\ audio_samples_written' =
                 IF writes THEN audio_samples_written + frames_per_channel(planes)
                           ELSE audio_samples_written
    /\ UNCHANGED <<video_frame_count, mic_samples_written, mic_audio_file,
                   mic_arrival,
                   procs, notCb>>
    /\ Handled("audio", planes, <<>>, write_ok, system_audio_muted)

\* capture_started_at.elapsed() in nanoseconds at a read of the reader: the
\* instant is taken before the children are spawned, so it is never zero
MicArrivalTimes == {1000, 2000}

\* start.rs:218-224: the arrival time of a non-empty read is offered to
\* first_mic_audio_arrival_ns before the pause and the mute flags are read
note_arrival(a, now_ns) ==
    LET stored == compare_exchange(a.ns, 0, now_ns)
    IN  [ns |-> stored,
         stores |-> IF stored # a.ns THEN a.stores + 1 ELSE a.stores,
         now_ns |-> now_ns,
         paused |-> IF a.stores = 0 THEN recording_paused ELSE a.paused,
         muted |-> IF a.stores = 0 THEN mic_muted ELSE a.muted]

\* the microphone reader thread: one read of the child's stdout appended to
\* the microphone file unless paused; a failed write ends the thread
MicChunk(chunk, write_ok) ==
    /\ sck_state.some
    /\ "mic_reader" \in procs
    /\ handled < MaxSamples
    /\ \E now_ns \in MicArrivalTimes : mic_arrival' = note_arrival(mic_arrival, now_ns)
    /\ LET out == mute_bytes(chunk, mic_muted)
           tries == ~drops_while_paused
           writes == tries /\ write_ok
       IN  /\ mic_audio_file' = IF writes THEN mic_audio_file \o out
                                          ELSE mic_audio_file
           /\ mic_samples_written' =
                 IF writes THEN mic_samples_written + mic_frames(chunk)
                           ELSE mic_samples_written
           /\ procs' = IF tries /\ ~write_ok THEN procs \ {"mic_reader"} ELSE procs
    /\ UNCHANGED <<video_frame_count, audio_samples_written, sys_audio_file,
                   notCb>>
    /\ Handled("mic", <<>>, chunk, write_ok, mic_muted)

-----------------------------------------------------------------------------
(* The writer slots, between the capture callbacks and stop_recording *)

\* frames and blocks the callback threads handle in all, and the write()
\* calls that write_all needs for one of them
MaxFrames == 3
FrameWrites == 2

notThreads == <<recVars, clockVars, sckVars, cbVars, bufVars, pc, call, last,
                faulted, cmd, events, settings_file, settings_last, shortcut,
                parsed, offsets, filters, ratio, tempo, ticking, stopping>>

notWriters == <<notThreads, ticker, preview, audio_layout, locking>>

\* start.rs:140-146: both slots are created holding their writers
OpenWriters ==
    /\ ~writers.opened
    /\ writers' = [writers EXCEPT !.slot = [w \in Writers |-> TRUE],
                                  !.opened = TRUE]
    /\ UNCHANGED notWriters

\* frame_handler.rs:43 and 65: the callback on thread c, not paused, takes
\* the mutex of the slot of its sample type
CallbackLock(c, w) ==
    /\ writers.opened
    /\ writers.cb[c].at = "idle"
    /\ writers.cb["c1"].frame + writers.cb["c2"].frame < MaxFrames
    /\ writers.lock[w] = "free"
    /\ writers' = [writers EXCEPT
                      !.lock[w] = c,
                      !.cb[c] = [at |-> "locked", w |-> w, frame |-> @.frame + 1,
                                 written |-> 0, failed |-> FALSE]]
    /\ UNCHANGED notWriters

\* frame_handler.rs:43-47 and 66-133: with the mutex held and the slot
\* holding its writer, write_all hands the bytes to the writer, one write()
\* at a time; a write() that fails ends it
CallbackWrite(c, write_ok) ==
    LET w == writers.cb[c].w
    IN  /\ writers.cb[c].at = "locked"
        /\ writers.lock[w] = c
        /\ writers.slot[w]
        /\ writers.cb[c].written < FrameWrites
        /\ ~writers.cb[c].failed
        /\ writers' = [writers EXCEPT
                          !.out[w] = IF write_ok
                                     THEN Append(@, [c |-> c,
                                                     frame |-> writers.cb[c].frame])
                                     ELSE @,
                          !.cb[c].written = IF write_ok THEN @ + 1 ELSE @,
                          !.cb[c].failed = ~write_ok,
                          !.refused = IF write_ok THEN @
                                      ELSE @ \cup {<<c, writers.cb[c].frame>>}]
        /\ UNCHANGED notWriters

\* frame_handler.rs:57 and 148-149: the guard is dropped when the callback
\* leaves the `if let`: after write_all has returned, or at once when the
\* slot is empty
CallbackUnlock(c) ==
    LET w == writers.cb[c].w
    IN  /\ writers.cb[c].at = "locked"
        /\ \/ ~writers.slot[w]
           \/ writers.cb[c].written = FrameWrites
           \/ writers.cb[c].failed
        /\ writers' = [writers EXCEPT !.lock[w] = "free",
                                       !.cb[c].at = "idle"]
        /\ UNCHANGED notWriters

\* a close that does not wait for the mutex
CloseWriter_without_lock(w) ==
    /\ writers.opened
    /\ writers.slot[w]
    /\ w = "audio" => ~writers.slot["video"]
    /\ writers' = [writers EXCEPT !.slot[w] = FALSE,
                                  !.closed_at[w] = Some(Len(writers.out[w]))]
    /\ UNCHANGED notWriters

\* stop.rs:32-35 and 38-41: stop_recording takes the mutex of a slot and
\* sets it to None, the video slot first
CloseWriter(w) ==
    /\ writers.opened
    /\ writers.slot[w]
    /\ w = "audio" => ~writers.slot["video"]
    /\ writers.lock[w] = "free"
    /\ writers' = [writers EXCEPT !.slot[w] = FALSE,
                                  !.closed_at[w] = Some(Len(writers.out[w]))]
    /\ UNCHANGED notWriters

-----------------------------------------------------------------------------
(* capture_audio_metadata, on the threads that deliver system audio *)

\* audio packets handled in all
MaxPackets == 3

\* what the format description of a packet gives: 0 stands for a packet
\* without a description, without the field, or with a zero in it
SampleRates == {0, 44100, 48000}
ChannelCounts == {0, 1, 2}

notLayout == <<notThreads, writers, ticker, preview, locking>>

\* lines 164-184 and 186-205: a field that this call loaded as 0 is offered
\* the detected value when that is positive; the cached value afterwards
cache_layout_latest(current, cached, detected) ==
    IF detected > 0 THEN detected ELSE cached
cache_layout(current, cached, detected) ==
    IF current = 0 /\ detected > 0
    THEN compare_exchange(cached, 0, detected)
    ELSE cached

\* the history of one field after a step that left it at value: stores made,
\* and the values a compare_exchange refused
noted(field, was, value, current, detected) ==
    [audio_layout EXCEPT
        !.stores[field] = IF value # was THEN @ + 1 ELSE @,
        !.refused = IF current = 0 /\ detected > 0 /\ value # detected
                    THEN @ \cup {<<field, detected>>} ELSE @]

\* line 157, on callback thread c with a packet of the given format
CaptureLoadRate(c, rate, channels) ==
    /\ audio_layout.cb[c].pc = "idle"
    /\ audio_layout.packets < MaxPackets
    /\ audio_layout' =
          [audio_layout EXCEPT !.packets = @ + 1,
                               !.cb[c] = [pc |-> "load_channels",
                                          current_rate |-> audio_layout.sample_rate,
                                          current_channels |-> 0,
                                          detected_rate |-> rate,
                                          detected_channels |-> channels]]
    /\ UNCHANGED notLayout

\* lines 158-161: the call returns when both loads were positive
CaptureLoadChannels(c) ==
    /\ audio_layout.cb[c].pc = "load_channels"
    /\ audio_layout' =
          IF audio_layout.cb[c].current_rate > 0 /\ audio_layout.channel_count > 0
          THEN [audio_layout EXCEPT !.cb[c] = NotDetecting]
          ELSE [audio_layout EXCEPT !.cb[c].pc = "rate",
                                    !.cb[c].current_channels =
                                        audio_layout.channel_count]
    /\ UNCHANGED notLayout

\* lines 164-184
CaptureRate(c) ==
    /\ audio_layout.cb[c].pc = "rate"
    /\ LET l == audio_layout.cb[c]
           value == cache_layout(l.current_rate, audio_layout.sample_rate,
                                 l.detected_rate)
       IN  audio_layout' =
              [noted("sample_rate", audio_layout.sample_rate, value,
                     l.current_rate, l.detected_rate)
                  EXCEPT !.sample_rate = value, !.cb[c].pc = "channels"]
    /\ UNCHANGED notLayout

\* lines 186-205, and the return
CaptureChannels(c) ==
    /\ audio_layout.cb[c].pc = "channels"
    /\ LET l == audio_layout.cb[c]
           value == cache_layout(l.current_channels, audio_layout.channel_count,
                                 l.detected_channels)
       IN  audio_layout' =
              [noted("channel_count", audio_layout.channel_count, value,
                     l.current_channels, l.detected_channels)
                  EXCEPT !.channel_count = value, !.cb[c] = NotDetecting]
    /\ UNCHANGED notLayout

-----------------------------------------------------------------------------
(* The two mutexes of a Recorder, under operations on its clones *)

Mutexes == {"state", "clock"}

\* the steps of an operation that matter to the mutexes: a lock() that
\* blocks until the mutex is free, the drop of a guard, and code in between
Lock(m) == <<"lock", m>>
Unlock(m) == <<"unlock", m>>
Run(what) == <<"run", what>>

\* Recorder::elapsed_ms (recording.rs:250-257), also elapsed_ms_from_clock
\* of the ticker: the guard is a temporary of the expression
elapsed_ms_steps == <<Lock("clock"), Unlock("clock")>>

\* an operation that returns while holding nothing but the state guard it
\* has just taken: the Err returns of start (140-142), pause (184-189),
\* resume (201-206), the return of start_elapsed_task at 261-263, and
\* stop_elapsed_task (294-302)
state_only_steps == <<Lock("state"), Unlock("state")>>

\* the operations of a Recorder as sequences of steps; "start_failed" and
\* "stop_failed" are start with the Err arm of line 173 and stop with the ?
\* of line 221 taken, "refused" any operation returning an error at its
\* first check of the state
steps_clock_first(op) ==
    IF op \in {"pause", "resume"}
    THEN <<Lock("clock"), Lock("state"), Run("set_recording_paused"),
           Unlock("state"), Unlock("clock")>> \o elapsed_ms_steps
    ELSE elapsed_ms_steps
steps(op) ==
    CASE op = "start" ->
            state_only_steps \o <<Run("resolve"), Run("sck_recorder.start")>>
               \o <<Lock("clock"), Unlock("clock")>>
      [] op = "start_failed" ->
            state_only_steps \o <<Run("resolve"), Run("sck_recorder.start")>>
               \o state_only_steps
      [] op \in {"pause", "resume"} ->
            <<Lock("state"), Run("set_recording_paused"),
              Lock("clock"), Unlock("clock")>>
               \o elapsed_ms_steps \o <<Unlock("state")>>
      [] op = "stop" ->
            state_only_steps
               \o <<Run("sck_recorder.stop"), Run("set_sync_enabled")>>
               \o state_only_steps \o elapsed_ms_steps
               \o <<Lock("state"), Lock("clock"), Unlock("clock"),
                    Unlock("state")>>
      [] op = "stop_failed" -> state_only_steps \o <<Run("sck_recorder.stop")>>
      [] op = "start_elapsed_task" ->
            <<Lock("state"), Run("spawn"), Unlock("state")>>
      [] op \in {"stop_elapsed_task", "refused"} -> state_only_steps
      [] OTHER -> elapsed_ms_steps

RecorderOps == {"start", "start_failed", "pause", "resume", "stop",
                "stop_failed", "elapsed_ms", "start_elapsed_task",
                "stop_elapsed_task", "refused"}

notLocking == <<notThreads, writers, ticker, preview, audio_layout>>

\* the step thread t is at, and whether it can take it
step_of(t) == steps(locking.th[t].op)[locking.th[t].at]

inside(t) == locking.th[t].op # "none"

can_step(t) ==
    /\ inside(t)
    /\ step_of(t)[1] = "lock" => locking.owner[step_of(t)[2]] = "none"

\* thread t calls an operation on its clone of the Recorder
RecorderCall(t, op) ==
    /\ ~inside(t)
    /\ locking' = [locking EXCEPT !.th[t] = [op |-> op, at |-> 1]]
    /\ UNCHANGED notLocking

\* thread t takes the step it is at; after the last one it has returned
RecorderStep(t) ==
    /\ can_step(t)
    /\ LET s == step_of(t)
           owner == IF s[1] = "lock" THEN [locking.owner EXCEPT ![s[2]] = t]
                    ELSE IF s[1] = "unlock"
                         THEN [locking.owner EXCEPT ![s[2]] = "none"]
                         ELSE locking.owner
           th == IF locking.th[t].at = Len(steps(locking.th[t].op))
                 THEN [op |-> "none", at |-> 0]
                 ELSE [locking.th[t] EXCEPT !.at = @ + 1]
       IN  locking' = [owner |-> owner, th |-> [locking.th EXCEPT ![t] = th]]
    /\ UNCHANGED notLocking

-----------------------------------------------------------------------------
(* A RecordingClock on its own, as in recording_clock_tracks_pause_and_resume *)

notClock == <<recVars, sckVars, cbVars, bufVars, callVars>>

ClockStart ==
    /\ clock' = clock_start(clock, now)
    /\ ran_for' = 0
    /\ UNCHANGED <<now, notClock>>

ClockPause ==
    /\ clock' = clock_pause(clock, now)
    /\ UNCHANGED <<now, ran_for, notClock>>

ClockResume ==
    /\ clock' = clock_resume(clock, now)
    /\ UNCHANGED <<now, ran_for, notClock>>

ClockStop ==
    /\ clock' = clock_stop(clock)
    /\ ran_for' = 0
    /\ UNCHANGED <<now, notClock>>

\* thread::sleep: d units of time pass
Sleep(d) ==
    /\ now + d <= MaxClockTime
    /\ now' = now + d
    /\ ran_for' = IF clock.running THEN ran_for + d ELSE ran_for
    /\ UNCHANGED <<clock, notClock>>

-----------------------------------------------------------------------------
(* The state after construction *)

InitRecorder ==
    /\ is_recording = FALSE
    /\ is_paused = FALSE
    /\ output_file = None
    /\ include_microphone = FALSE
    /\ include_camera = FALSE
    /\ elapsed_task = FALSE
    /\ clock = clock_default
    /\ now = 0
    /\ ran_for = 0
    /\ sck_state = None
    /\ mic_muted = FALSE
    /\ system_audio_muted = FALSE
    /\ recording_paused = FALSE
    /\ sync_enabled = FALSE
    /\ procs = {}
    /\ fs = {}
    /\ video_frame_count = 0
    /\ audio_samples_written = 0
    /\ mic_samples_written = 0
    /\ sys_audio_file = <<>>
    /\ mic_audio_file = <<>>
    /\ mic_arrival = NoArrival
    /\ last_cb = NoCb
    /\ session_mutes = {}
    /\ handled = 0
    /\ pc = [t \in Threads |-> "idle"]
    /\ call = [t \in Threads |-> NoCall]
    /\ last = NoLast
    /\ faulted = FALSE
    /\ cmd = NoCmd
    /\ events = <<>>
    /\ settings_last = NoStoreCall
    /\ parsed = None
    /\ filters = None
    /\ tempo = None
    /\ ticking = [c \in Callbacks |-> NotTicking]
    /\ stopping = NotStopping
    /\ writers = NoWriters
    /\ ticker = NoTicker
    /\ preview = NoPreview
    /\ audio_layout = NoLayout
    /\ locking = NoLocking

\* CameraSyncHandle::new
InitSync ==
    /\ frame_in_count = 0
    /\ frame_out_count = 0
    /\ last_emit_delta_ns = 0
    /\ last_screen_pts_ns = 0
    /\ screen_tick_count = 0
    /\ last_emitted_frame = None
    /\ target_offset_ns = INITIAL_TARGET_OFFSET_NS
    /\ dropped_frames = 0
    /\ repeated_frames = 0
    /\ emitted = <<>>
    /\ overflowed = 0
    /\ skipped = 0
    /\ last_sync = NoSync

\* SyncedFrameBuffer::new
InitBuffer ==
    /\ frames = <<>>
    /\ last_frame = None
    /\ min_queued = None
    /\ max_queued = 0
    /\ last_buf = [op |-> "new", was_len |-> 0, frame |-> None, pops |-> 0,
                   synced |-> FALSE]
    /\ pushed = <<>>
    /\ InitSync

\* a buffer that has taken Prefill pushes since new
InitBufferPrefilled ==
    /\ frames = Prefilled(Prefill)
    /\ last_frame = Some(CameraFramePayload(Prefill, Prefill))
    /\ min_queued = Some(1)
    /\ max_queued = Prefill
    /\ last_buf = [op |-> "push", was_len |-> Prefill - 1,
                   frame |-> Some(CameraFramePayload(Prefill, Prefill)),
                   pops |-> 0, synced |-> FALSE]
    /\ pushed = Prefilled(Prefill)
    /\ InitSync

\* no settings file yet, nothing handed to the parser or to the mux
NoInputs ==
    /\ settings_file = None
    /\ shortcut = <<>>
    /\ offsets = [system |-> None, mic |-> None]
    /\ ratio = 0

Init == InitRecorder /\ InitBuffer /\ NoInputs

InitBuf == InitRecorder /\ (InitBuffer \/ InitBufferPrefilled) /\ NoInputs

\* one caller: each call returns before the next is made
Next ==
    \/ \E o \in RecordingOptions : StartLock("t1", o)
    \/ \E found \in BOOLEAN : StartResolve("t1", found)
    \/ \E f \in StartFaults : StartSck("t1", f)
    \/ StartOk("t1")
    \/ StartRollback("t1")
    \/ Pause("t1")
    \/ Resume("t1")
    \/ \E e \in StopEnvs : Stop("t1", e)
    \/ StartElapsedTask("t1")
    \/ Tick

Spec == Init /\ [][Next]_vars

\* two callers, each with a clone of the Recorder, calling start()
NextRace ==
    \E t \in Threads :
        \/ \E o \in RecordingOptions : StartLock(t, o)
        \/ \E found \in BOOLEAN : StartResolve(t, found)
        \/ \E f \in StartFaults : StartSck(t, f)
        \/ StartOk(t)
        \/ StartRollback(t)

SpecRace == Init /\ [][NextRace]_vars

\* the UI invoking the recording commands, one at a time
CommandNames == {"start_recording", "pause_recording", "resume_recording",
                 "stop_recording"}

NextCmd ==
    \/ \E name \in CommandNames, o \in RecordingOptions :
          /\ name # "start_recording" => o = NoCmd.options
          /\ Invoke(name, o)
    \/ Serving("start_recording") /\ StartLock("t1", cmd.options)
    \/ \E found \in BOOLEAN : StartResolve("t1", found)
    \/ \E f \in StartFaults : StartSck("t1", f)
    \/ StartOk("t1")
    \/ StartRollback("t1")
    \/ \E emit_ok, overlay_ok \in BOOLEAN :
          StartRecordingReturn(emit_ok, overlay_ok)
    \/ Serving("pause_recording") /\ Pause("t1")
    \/ Serving("resume_recording") /\ Resume("t1")
    \/ \E emit_ok \in BOOLEAN : PauseResumeReturn(emit_ok)
    \/ \E e \in StopEnvs : Serving("stop_recording") /\ Stop("t1", e)
    \/ \E settings_ok, overlay_ok, emit_ok \in BOOLEAN :
          StopRecordingReturn(settings_ok, overlay_ok, emit_ok)
    \/ \E downloads_ok, remove_ok \in BOOLEAN,
          copy \in {"failed", "vanished", "copied"} :
          FinalizeTask(downloads_ok, copy, remove_ok)
    \/ Tick

SpecCmd == Init /\ [][NextCmd]_vars

\* the values a JSON member found in a settings file may have, and the
\* files a store may find: none, one that is not text, one that is not
\* JSON, and every object with some of the four members
FoundValues == {json_bool(TRUE), json_null, json_string(<<"a">>),
                json_string(<<"\\">>)}
FoundFiles ==
    {None, Some(NotUtf8), Some(NotJson)} \cup
    {Some(JsonObject(m)) :
        m \in UNION {[K -> FoundValues] :
                        K \in SUBSET {"micEnabled", "cameraEnabled",
                                      "immersiveShortcut", "saveLocation"}}}

InitSettings ==
    /\ InitRecorder
    /\ InitBuffer
    /\ settings_file \in FoundFiles
    /\ shortcut = <<>>
    /\ offsets = [system |-> None, mic |-> None]
    /\ ratio = 0

\* a SettingsStore loading and saving
NextSettings ==
    \/ \E read_ok \in BOOLEAN : SettingsLoad(read_ok)
    \/ \E s \in AppSettings : SettingsSave(s, "ok")
    \/ \E io \in {"mkdir", "open", "write"} :
          SettingsSave(AppSettingsDefault, io)

SpecSettings == InitSettings /\ [][NextSettings]_vars

\* parse_shortcut applied to each of the shortcut strings
InitShortcut ==
    /\ InitRecorder
    /\ InitBuffer
    /\ settings_file = None
    /\ shortcut \in Shortcuts
    /\ offsets = [system |-> None, mic |-> None]
    /\ ratio = 0

SpecShortcut == InitShortcut /\ [][ParseShortcut]_vars

\* mux_final_video building the alignment filters for each pair of offsets
InitMux ==
    /\ InitRecorder
    /\ InitBuffer
    /\ settings_file = None
    /\ shortcut = <<>>
    /\ offsets \in [system : OffsetSeconds, mic : OffsetSeconds]
    /\ ratio = 0

SpecMux == InitMux /\ [][MuxFinalVideo]_vars

\* build_atempo_chain applied to each of the ratios
InitTempo ==
    /\ InitRecorder
    /\ InitBuffer
    /\ settings_file = None
    /\ shortcut = <<>>
    /\ offsets = [system |-> None, mic |-> None]
    /\ ratio \in Ratios

SpecTempo == InitTempo /\ [][BuildAtempoChain]_vars

\* one caller inside start() on its clone of the Recorder (commands/mod.rs:
\* 20-32, no outer lock held) while another calls pause(), resume() and
\* stop(); sessions without failures
NextPause ==
    \/ \E o \in RecordingOptions : StartLock("t1", o)
    \/ StartResolve("t1", TRUE)
    \/ StartSck("t1", "none")
    \/ StartOk("t1")
    \/ Pause("t2")
    \/ Resume("t2")
    \/ Stop("t2", GoodEnv)
    \/ Tick

SpecPause == Init /\ [][NextPause]_vars

\* one session with the camera, paused and resumed, while the preview
\* thread pushes camera frames and the capture source delivers screen
\* frames, at most one camera frame ahead of the screen frames and none
\* before the capture has started
NextScreen ==
    \/ StartLock("t1", [include_microphone |-> FALSE, include_camera |-> TRUE])
    \/ StartResolve("t1", TRUE)
    \/ StartSck("t1", "none")
    \/ StartOk("t1")
    \/ Pause("t1")
    \/ Resume("t1")
    \/ /\ sck_state.some
       /\ Len(pushed) <= last_sync.emits
       /\ \E pts_ns \in CameraPts : PushFrame(pts_ns)
    \/ \E screen_pts_ns \in ScreenTimes, write_ok \in BOOLEAN :
          ScreenFrameSynced(screen_pts_ns, write_ok)

SpecScreen == Init /\ [][NextScreen]_vars

\* one caller and the capture threads: sessions without failures, the mute
\* setters, and the samples the capture source and the microphone deliver
NextAudio ==
    \/ \E m \in BOOLEAN :
          StartLock("t1", [include_microphone |-> m, include_camera |-> FALSE])
    \/ StartResolve("t1", TRUE)
    \/ StartSck("t1", "none")
    \/ StartOk("t1")
    \/ Pause("t1")
    \/ Resume("t1")
    \/ Stop("t1", GoodEnv)
    \/ \E muted \in BOOLEAN : SetMicMuted("t1", muted)
    \/ \E muted \in BOOLEAN : SetSystemAudioMuted("t1", muted)
    \/ \E write_ok \in BOOLEAN : ScreenFrame(write_ok)
    \/ \E planes \in AudioBlocks : AudioSample(planes, TRUE)
    \/ \E chunk \in MicChunks, write_ok \in BOOLEAN : MicChunk(chunk, write_ok)

SpecAudio == Init /\ [][NextAudio]_vars

\* a SyncedFrameBuffer driven directly, new or nearly full
NextBuf ==
    \/ \E pts_ns \in NextPts : Push(pts_ns)
    \/ \E screen_pts_ns \in ScreenPts : PopForScreenPts(screen_pts_ns)
    \/ Clear

SpecBuf == InitBuf /\ [][NextBuf]_vars

\* the camera sync engine: the preview thread pushing frames, the screen
\* callback publishing timestamps, the recorder and the preview switching
\* sync on and off
NextSync ==
    \/ \E pts_ns \in CameraPts : PushFrame(pts_ns)
    \/ \E screen_pts_ns \in ScreenTimes : EmitForScreenPts(screen_pts_ns)
    \/ \E enabled \in BOOLEAN : SetSyncEnabledCall(enabled)
    \/ PreviewStop

SpecSync == Init /\ [][NextSync]_vars

\* the camera sync handle with the screen timestamps handled on two
\* callback threads, each of which may be interrupted between its load of
\* the offset and its store; sync is switched on before the first screen
\* timestamp only, so that one session is followed, to its end and past it
NextTick ==
    \/ \E pts_ns \in CameraPts : PushFrame(pts_ns)
    \/ \E c \in Callbacks, screen_pts_ns \in FarScreenTimes :
          TickLoad(c, screen_pts_ns)
    \/ \E c \in Callbacks : TickStore(c)
    \/ SetSyncEnabledCall(FALSE)
    \/ /\ last_screen_pts_ns = 0
       /\ SetSyncEnabledCall(TRUE)

SpecTick == Init /\ [][NextTick]_vars

\* the moments of a wait loop, in milliseconds since its start, at which a
\* child is tried exiting, or try_wait failing
ExitTimesMs == {0, 1000}

ExitsTried(t, outcome) ==
    /\ pc[t] \in {"wait_video", "wait_mic"}
    /\ outcome # "timeout" =>
          stopping.state[t].v.elapsed[wait_loop(t)] \in ExitTimesMs

\* one session started without failures, and two callers each running
\* stop_recording once, at any moment of the start and of each other's stop;
\* the children exit at the moments of ExitTimesMs or outlive the bounds
NextStop ==
    \/ /\ stopping.steps = <<>>
       /\ \E o \in RecordingOptions : StartLock("t1", o)
    \/ StartResolve("t1", TRUE)
    \/ StartSck("t1", "none")
    \/ StartOk("t1")
    \/ \E t \in Threads, env \in StopEnvs : StopTake(t, env)
    \/ \E t \in Threads : StopCapture(t)
    \/ \E t \in Threads : StopSleep(t)
    \/ \E t \in Threads : StopClose(t)
    \/ \E t \in Threads, outcome \in WaitOutcomes :
          /\ ExitsTried(t, outcome)
          /\ StopWaitVideo(t, outcome)
    \/ \E t \in Threads, outcome \in WaitOutcomes :
          /\ ExitsTried(t, outcome)
          /\ StopWaitMic(t, outcome)
    \/ \E t \in Threads : StopPoll(t)
    \/ \E t \in Threads : StopMux(t)
    \/ \E t \in Threads : StopReturn(t)

SpecStop == Init /\ [][NextStop]_vars

\* "recording-elapsed" events followed
MaxElapsedEvents == 3

\* one caller starting sessions, registering the ticker and stopping, while
\* the runtime polls the ticker tasks
NextTicker ==
    \/ StartLock("t1", [include_microphone |-> FALSE, include_camera |-> FALSE])
    \/ StartResolve("t1", TRUE)
    \/ StartSck("t1", "none")
    \/ StartOk("t1")
    \/ /\ SessionStarted
       /\ last.op # "start_elapsed_task" \/ ~elapsed_task
       /\ StartElapsedTask("t1")
    \/ Stop("t1", GoodEnv)
    \/ TickerPoll
    \/ \E stopped \in BOOLEAN :
          Len(ticker.emitted) < MaxElapsedEvents /\ TickerEmit(stopped)
    \/ \E at \in {"spawned", "waiting"} : TickerEnd(at)

SpecTicker == Init /\ [][NextTicker]_vars

\* the camera preview started and stopped while its reader threads run, with
\* sync disabled throughout: a reader stamps a frame and pushes it in two
\* steps, and the clock advances by at most one unit between two readings
NextPreview ==
    \/ CameraPreviewStart
    \/ CameraPreviewStop
    \/ \E r \in Readers, spawn_ok \in BOOLEAN : ReaderSpawn(r, spawn_ok)
    \/ \E r \in Readers : ReaderLoop(r)
    \/ \E r \in Readers, got \in {"eof", "nothing", "frame"}, dt \in {0, 1} :
          ReaderRead(r, got, dt)
    \/ \E r \in Readers : ReaderPush(r)

SpecPreview == Init /\ [][NextPreview]_vars

\* capture_audio_metadata called for the packets of one session on two
\* callback threads, each call interruptible between its loads and stores
NextLayout ==
    \/ \E c \in Callbacks, rate \in SampleRates, channels \in ChannelCounts :
          CaptureLoadRate(c, rate, channels)
    \/ \E c \in Callbacks : CaptureLoadChannels(c)
    \/ \E c \in Callbacks : CaptureRate(c)
    \/ \E c \in Callbacks : CaptureChannels(c)

SpecLayout == Init /\ [][NextLayout]_vars

\* two threads calling the operations of one Recorder through clones, in
\* any order and at any pace
NextLocking ==
    \/ \E t \in Threads, op \in RecorderOps : RecorderCall(t, op)
    \/ \E t \in Threads : RecorderStep(t)

SpecLocking == Init /\ [][NextLocking]_vars

\* one caller starting a session and running stop_recording on it
NextStopAlone ==
    \/ /\ stopping.steps = <<>>
       /\ \E o \in RecordingOptions : StartLock("t1", o)
    \/ StartResolve("t1", TRUE)
    \/ StartSck("t1", "none")
    \/ StartOk("t1")
    \/ \E env \in StopEnvs : StopTake("t1", env)
    \/ StopCapture("t1")
    \/ StopSleep("t1")
    \/ StopClose("t1")
    \/ \E outcome \in WaitOutcomes :
          /\ ExitsTried("t1", outcome)
          /\ StopWaitVideo("t1", outcome)
    \/ \E outcome \in WaitOutcomes :
          /\ ExitsTried("t1", outcome)
          /\ StopWaitMic("t1", outcome)
    \/ StopPoll("t1")
    \/ StopMux("t1")
    \/ StopReturn("t1")

\* the thread inside stop_recording keeps running: its sleeps end (time
\* advances), kill and wait return, and mux_final_video returns (the mux
\* subprocess terminates); whether a child exits on its own is left open
StopRuns ==
    /\ WF_vars(StopCapture("t1"))
    /\ WF_vars(StopSleep("t1"))
    /\ WF_vars(StopClose("t1"))
    /\ WF_vars(StopPoll("t1"))
    /\ WF_vars(StopWaitVideo("t1", "timeout"))
    /\ WF_vars(StopWaitMic("t1", "timeout"))
    /\ WF_vars(StopMux("t1"))
    /\ WF_vars(StopReturn("t1"))

SpecStopLive == Init /\ [][NextStopAlone]_vars /\ StopRuns

\* a session's writers from their creation to their close, with two callback
\* threads delivering screen frames and audio blocks at any moment
NextWriters ==
    \/ OpenWriters
    \/ \E c \in Callbacks, w \in Writers : CallbackLock(c, w)
    \/ \E c \in Callbacks, write_ok \in BOOLEAN : CallbackWrite(c, write_ok)
    \/ \E c \in Callbacks : CallbackUnlock(c)
    \/ \E w \in Writers : CloseWriter(w)

SpecWriters == Init /\ [][NextWriters]_vars

\* the camera sync scenario: CadenceFrames camera frames one every CadenceNs
\* from pts 0, and as many screen timestamps at the same cadence, each
\* ShiftNs after its camera frame
CadenceNs == 33000000
ShiftNs == 20000000
CadenceFrames == 60

\* the session starts with the camera: sync is switched on
CadenceStart ==
    /\ ~sync_enabled
    /\ frame_in_count = 0
    /\ SetSyncEnabledCall(TRUE)

\* the k-th camera frame arrives once the screen timestamps before it have
\* been handled
CadenceCamera ==
    /\ sync_enabled
    /\ frame_in_count < CadenceFrames
    /\ frame_in_count = screen_tick_count
    /\ push_frame(frame_in_count * CadenceNs)

\* the k-th screen timestamp arrives ShiftNs after the k-th camera frame
CadenceScreen ==
    /\ sync_enabled
    /\ screen_tick_count < frame_in_count
    /\ emit_for_screen_pts(screen_tick_count * CadenceNs + ShiftNs)
    /\ UNCHANGED notCam

SpecCadence ==
    Init /\ [][CadenceStart \/ CadenceCamera \/ CadenceScreen]_vars

\* a RecordingClock driven directly, with time passing between the calls
NextClock ==
    \/ ClockStart
    \/ ClockPause
    \/ ClockResume
    \/ ClockStop
    \/ \E d \in 1..MaxSleep : Sleep(d)

SpecClock == Init /\ [][NextClock]_vars

\* no caller is inside a call
Quiescent == \A t \in Threads : pc[t] = "idle"

-----------------------------------------------------------------------------
(* The session state machine *)

\* C1: as long as no lookup, capture start or capture stop has failed, a
\* start/pause/resume/stop call succeeds exactly when the transition table
\* allows it in the state it finds, and a refused call returns an
\* AppError::Recording and leaves is_recording, is_paused, the
\* recording_paused flag and the clock as they were.
C1_OnlyLegalCallsSucceed ==
    (~faulted /\ last.op \in {"start", "pause", "resume", "stop"}) =>
        /\ last.res.ok <=> last.legal
        /\ ~last.res.ok => (last.res.kind = "Recording" /\ last.same)

\* a pause refused in Recording(paused) after the clock has run
C1_RefusedPauseWhilePaused ==
    /\ ~faulted
    /\ last.op = "pause"
    /\ ~last.res.ok
    /\ is_recording /\ is_paused /\ recording_paused
    /\ clock.accumulated > 0

\* C2: when start() returns an error other than "already in progress", the
\* Recorder is Idle: is_recording is false and output_file is None.
C2_FailedStartLeavesIdle ==
    (/\ Quiescent
     /\ last.op = "start"
     /\ ~last.res.ok
     /\ last.res.msg # "Recording already in progress")
        => (~is_recording /\ output_file = None)

\* C3: a stop() that finds the Recorder recording, with a capture session to
\* tear down, leaves it Idle (not recording, not paused, clock reset, camera
\* sync disabled, ticker cancelled) whatever the capture side returns, and
\* never leaves it recording without a capture session.
C3_StopAlwaysEndsIdle ==
    (Quiescent /\ last.op = "stop" /\ last.legal /\ ~last.kept) =>
        /\ ~is_recording
        /\ ~is_paused
        /\ clock = clock_default
        /\ ~sync_enabled
        /\ ~elapsed_task
        /\ is_recording => sck_state.some

\* C4: when the mux fails in a stop whose encoder left the temp video, the
\* video is copied to the output path, so stop returns Ok and the output is
\* there, unless the copy itself fails.
C4_MuxFailureKeepsVideo ==
    (/\ last.op = "stop"
     /\ ~last.kept
     /\ last.env.enc_ok
     /\ ~last.env.mux_ok
     /\ last.env.copy_ok)
        => (last.res.ok /\ (Quiescent => "output" \in fs))

-----------------------------------------------------------------------------
(* The pause-aware clock *)

\* C6: elapsed() is the total time during which running was true since the
\* clock was started; while the clock is paused the passing of time does not
\* change it, and while it runs the passing of time makes it strictly larger.
C6_ElapsedIsTimeRunning ==
    /\ [](clock_elapsed(clock, now) = ran_for)
    /\ [][(~clock.running /\ clock' = clock)
            => clock_elapsed(clock', now') = clock_elapsed(clock, now)]_vars
    /\ [][(clock.running /\ clock' = clock /\ now' > now)
            => clock_elapsed(clock', now') > clock_elapsed(clock, now)]_vars

\* a clock that ran, was paused while time passed, was resumed and ran again
C6_ResumedAndRunning ==
    /\ clock.running
    /\ clock.accumulated > 0
    /\ now > clock.start_instant.v
    /\ ran_for < now
    /\ clock_elapsed(clock, now) > clock.accumulated

-----------------------------------------------------------------------------
(* Racing starts *)

\* C7: of the callers racing start(), at most one is past the check under
\* the state lock at any time, so the capture source is never started
\* while a session exists; a start() that finds a recording in progress
\* returns "Recording already in progress" and leaves output_file,
\* include_microphone, include_camera and the capture session alone.
C7_OneStartWins ==
    /\ Cardinality({t \in Threads : pc[t] # "idle"}) <= 1
    /\ \A t \in Threads : pc[t] = "sck_start" => ~sck_state.some
    /\ (last.op = "start" /\ ~last.legal) =>
          /\ last.res = Err("Recording already in progress")
          /\ last.fields
          /\ last.kept

\* t2 was refused while t1 was between its check and the capture start
C7_RefusedDuringStart ==
    /\ pc["t1"] = "sck_start"
    /\ last.op = "start"
    /\ last.t = "t2"
    /\ last.res = Err("Recording already in progress")
    /\ output_file = build_output_path("t1")

-----------------------------------------------------------------------------
(* Pause, mute and the written streams *)

\* bytes a system-audio block yields, from its layout alone: two per sample,
\* every sample of every buffer when interleaved, the shortest plane across
\* all planes when planar
RECURSIVE SampleCount(_)
SampleCount(planes) ==
    IF planes = <<>> THEN 0
    ELSE Len(Head(planes).samples) + SampleCount(Tail(planes))

BlockBytes(planes) ==
    IF planar_layout(planes) THEN 2 * Len(planes) * min_plane_len(planes)
                             ELSE 2 * SampleCount(planes)

\* the bytes and frames the last handled sample carries, mute aside
InputBytes ==
    IF last_cb.kind = "mic" THEN Len(last_cb.chunk) ELSE BlockBytes(last_cb.planes)

InputFrames ==
    IF last_cb.kind = "mic" THEN mic_frames(last_cb.chunk)
                            ELSE frames_per_channel(last_cb.planes)

Unmuted ==
    IF last_cb.kind = "mic" THEN last_cb.chunk ELSE s16_data(last_cb.planes)

\* C5: a screen frame, system-audio block or microphone read handled while
\* recording_paused is set writes nothing and advances no counter; one
\* handled while the flag is clear is written (when the write succeeds); and
\* a successful resume() leaves the capture session and its children as
\* they were.
C5_PausedSamplesAreDropped ==
    /\ (last_cb.kind # "none" /\ last_cb.paused) =>
          (last_cb.appended = <<>> /\ last_cb.delta = 0 /\ last_cb.file_kept)
    /\ (last_cb.kind = "screen" /\ ~last_cb.paused /\ last_cb.write_ok) =>
          last_cb.delta = 1
    /\ (last_cb.kind \in {"audio", "mic"} /\ ~last_cb.paused /\ last_cb.write_ok) =>
          Len(last_cb.appended) = InputBytes
    /\ (last.op = "resume" /\ last.res.ok) => last.kept

\* after a sample was dropped during a pause, resume() returned and the next
\* system-audio block was written
C5_WrittenAgainAfterResume ==
    /\ last.op = "resume"
    /\ last.res.ok
    /\ last_cb.kind = "audio"
    /\ last_cb.dropped_before
    /\ ~last_cb.paused
    /\ last_cb.appended # <<>>
    /\ sys_audio_file = last_cb.appended

\* C8: the mute setters are no-ops while Idle: a block or chunk handled in a
\* session in which the source's mute setter has not been called is written
\* unmuted.
C8_IdleMuteIsNoOp ==
    (/\ last_cb.kind \in {"audio", "mic"}
     /\ ~last_cb.paused
     /\ last_cb.write_ok
     /\ ~last_cb.session_mute)
        => last_cb.appended = Unmuted

\* C9: for a system-audio block or microphone read handled while not paused,
\* the bytes appended and the increment of the samples-written counter
\* depend on the sample alone, not on the mute flag; with the flag set every
\* appended byte is zero; what the file held before stays as its prefix.
C9_MuteKeepsTheTimeline ==
    (/\ last_cb.kind \in {"audio", "mic"}
     /\ ~last_cb.paused
     /\ last_cb.write_ok)
        => /\ Len(last_cb.appended) = InputBytes
           /\ last_cb.delta = InputFrames
           /\ last_cb.muted =>
                 \A i \in 1..Len(last_cb.appended) : last_cb.appended[i] = 0
           /\ ~last_cb.muted => last_cb.appended = Unmuted
           /\ last_cb.file_kept

\* a muted microphone read appended as zeros after an unmuted one
C9_MutedAfterUnmuted ==
    /\ last_cb.kind = "mic"
    /\ last_cb.muted
    /\ ~last_cb.paused
    /\ last_cb.appended = <<0, 0, 0, 0>>
    /\ mic_audio_file = <<1, 2, 3, 4, 0, 0, 0, 0>>
    /\ mic_samples_written = 2 * mic_frames(<<1, 2, 3, 4>>)

-----------------------------------------------------------------------------
(* The camera frame buffer *)

Sorted(q) == \A i \in 1..(Len(q) - 1) : q[i].pts_ns <= q[i + 1].pts_ns

\* C10: the buffer never holds more than CAMERA_BUFFER_CAPACITY frames; its
\* contents are a contiguous run of the frames pushed, in push order; they
\* are pts-sorted whenever the pushes were in non-decreasing pts order; a
\* push keeps the pushed frame at the back, and a push onto a full buffer
\* removes exactly the front frame.
C10_BoundedContiguousWindow ==
    /\ [](/\ Len(frames) <= CAMERA_BUFFER_CAPACITY
          /\ frames # <<>> =>
                frames = SubSeq(pushed, frames[1].id,
                                frames[1].id + Len(frames) - 1)
          /\ Sorted(pushed) => Sorted(frames)
          /\ last_buf.op = "push" =>
                (frames # <<>> /\ frames[Len(frames)] = last_buf.frame.v))
    /\ [][(pushed' # pushed /\ Len(frames) = CAMERA_BUFFER_CAPACITY)
            => frames' = Append(Tail(frames), pushed'[Len(pushed')])]_vars

\* a push found the buffer full, and the front frame gave way to it
C10_PushedOntoFull ==
    /\ last_buf.op = "push"
    /\ last_buf.was_len = CAMERA_BUFFER_CAPACITY
    /\ Len(frames) = CAMERA_BUFFER_CAPACITY
    /\ frames[1].id = Len(pushed) - CAMERA_BUFFER_CAPACITY + 1
    /\ frames[Len(frames)].id = Len(pushed)


-----------------------------------------------------------------------------
(* The camera sync engine *)


\* C11: when sync is enabled and the buffer is sorted by pts,
\* emit_for_screen_pts(S) pops the last frame with pts <= S - target_offset_ns
\* (saturating at zero) and every frame before it: the frame it takes is
\* that frame, the frames that stay are the ones after it, each with a
\* greater pts than the frame taken; when no frame qualifies the buffer is
\* as it was.
C11_PopsLastFrameNotAfter ==
    (last_sync.op = "emit_for_screen_pts" /\ last_sync.enabled
        /\ Sorted(last_sync.was)) =>
        LET was == last_sync.was
            left == last_sync.left
            adjusted == IF last_sync.screen_pts_ns > last_sync.offset
                        THEN last_sync.screen_pts_ns - last_sync.offset ELSE 0
            qualifying == {i \in 1..Len(was) : was[i].pts_ns <= adjusted}
        IN  IF qualifying = {}
            THEN last_sync.frame = None /\ left = was
            ELSE LET k == CHOOSE i \in qualifying :
                                \A j \in qualifying : j <= i
                 IN  /\ last_sync.frame = Some(was[k])
                     /\ was[k].pts_ns <= adjusted
                     /\ left = SubSeq(was, k + 1, Len(was))
                     /\ \A i \in 1..Len(left) :
                            left[i].pts_ns > was[k].pts_ns

\* a timestamp that took the second of three sorted frames, passing over
\* the first and leaving the third
C11_TookMiddleFrame ==
    /\ last_sync.op = "emit_for_screen_pts"
    /\ last_sync.enabled
    /\ Sorted(last_sync.was)
    /\ Len(last_sync.was) = 3
    /\ Len(last_sync.left) = 1
    /\ last_sync.frame = Some(last_sync.was[2])
    /\ last_sync.screen_pts_ns > last_sync.offset


\* the number of "camera-frame" events that delivered the frame, the
\* repeats of the last emitted frame aside
Times(id) ==
    Cardinality({j \in DOMAIN emitted :
                    emitted[j].id = id /\ emitted[j].via # "reuse"})

\* the last push is still part of the history
LastPushed ==
    /\ last_buf.op = "push"
    /\ pushed # <<>>
    /\ last_buf.frame = Some(pushed[Len(pushed)])

\* C12: a frame pushed while sync is disabled is emitted by the push, and
\* that is the only time it is ever delivered, also after sync is enabled
\* (a repeat of the last emitted frame for a timestamp that finds no frame
\* is not counted); a
\* frame pushed while sync is enabled is not emitted by the push, and
\* reaches the UI only through emit_for_screen_pts.
C12_PreviewFramesEmittedOnce ==
    /\ \A i \in DOMAIN emitted :
          emitted[i].via = "push" => Times(emitted[i].id) = 1
    /\ (LastPushed /\ ~last_buf.synced) => Times(last_buf.frame.v.id) >= 1
    /\ (LastPushed /\ last_buf.synced) =>
          \A j \in DOMAIN emitted :
             emitted[j].id = last_buf.frame.v.id => emitted[j].via # "push"


\* C13: frame_in_count - frame_out_count - repeated_frames is the length
\* of the buffer plus the number of frames the buffer dropped on overflow.
C13_CountersAccountForFrames ==
    frame_in_count - frame_out_count - repeated_frames
        = Len(frames) + overflowed


\* the screen timestamp of the tick-th screen frame of the cadence scenario
ScreenPtsOf(tick) == (tick - 1) * CadenceNs + ShiftNs

\* the emissions made for the screen timestamps after the n-th
EmissionsAfter(n) ==
    {i \in 1..Len(emitted) : emitted[i].via # "push" /\ emitted[i].tick > n}

\* those of them whose frame is within 2 ms of the 5 ms target lag
InBandAfter(n) ==
    {i \in EmissionsAfter(n) :
        LET delta == ScreenPtsOf(emitted[i].tick) - emitted[i].pts_ns
        IN  /\ delta - CAMERA_TARGET_LAG_NS < 2000000
            /\ CAMERA_TARGET_LAG_NS - delta < 2000000}

\* C14: when the 60 camera frames and the 60 screen timestamps of the
\* scenario have been fed, there is a point of the run after which 95% of
\* the emitted frames are within 2 ms of the 5 ms lag, and no screen frame
\* was left without a camera frame.
C14_ConvergesToTargetLag ==
    screen_tick_count = CadenceFrames =>
        /\ dropped_frames = 0
        /\ \E n \in 0..(CadenceFrames - 1) :
              100 * Cardinality(InBandAfter(n))
                  >= 95 * Cardinality(EmissionsAfter(n))


-----------------------------------------------------------------------------
(* The commands *)

\* how many times a command and its task have emitted the event
Count(event) == Cardinality({i \in 1..Len(events) : events[i] = event})

\* the session as Recorder::start must leave it when it returns Ok
StartPostcondition ==
    (last.op = "start" /\ last.res.ok) =>
        /\ is_recording
        /\ ~is_paused
        /\ ~recording_paused
        /\ clock.running
        /\ clock_elapsed(clock, now) = ran_for
        /\ sync_enabled <=> cmd.options.include_camera

\* C15: once Recorder::start has returned Ok the session is recording, not
\* paused, its capture is not paused, its clock runs and has counted only
\* the time since the start, and camera sync is on exactly when the camera
\* was requested; and a start_recording command that has returned has
\* emitted "recording-started" once if it succeeded and never if it failed.
C15_StartedOnceOnSuccessOnly ==
    /\ StartPostcondition
    /\ (cmd.name = "start_recording" /\ cmd.done) =>
          Count("recording-started") = IF cmd.res.ok THEN 1 ELSE 0


\* the place of the event among those of the command, 0 when absent
Place(event) ==
    IF Count(event) = 0 THEN 0
    ELSE CHOOSE i \in 1..Len(events) :
            events[i] = event /\ \A j \in 1..(i - 1) : events[j] # event

\* C16: a stop_recording command whose Recorder::stop succeeded has emitted
\* "recording-stopped" when it returns; when its background task has
\* finished, exactly one of "recording-saved" and "recording-error" follows
\* that event; "recording-saved" is emitted only with the temp file copied
\* to the final path, and the task removes the temp file only then.
C16_StoppedThenSavedOrError ==
    (cmd.name = "stop_recording" /\ cmd.done /\ cmd.stopped) =>
        /\ Count("recording-stopped") = 1
        /\ cmd.task # "none"
        /\ cmd.task = "done" =>
              /\ Count("recording-saved") + Count("recording-error") = 1
              /\ Place("recording-stopped")
                    < Place("recording-saved") + Place("recording-error")
        /\ Count("recording-saved") > 0 => cmd.copied /\ "final" \in fs
        /\ cmd.removed => Count("recording-saved") = 1


-----------------------------------------------------------------------------
(* The settings store *)

\* C17: a load() that follows a successful save(s) on the same store, the
\* file being readable, returns s with its four fields, whatever was saved
\* or found before.
C17_LoadReturnsLastSaved ==
    (/\ settings_last.op = "load"
     /\ settings_last.read_ok
     /\ settings_last.saved.some) =>
        /\ settings_last.res.ok
        /\ settings_last.res.v = settings_last.saved.v

\* a value with a quote in its shortcut and a backslash in its save
\* location, saved over another value, has been loaded back
C17_LoadedBackEscapedStrings ==
    /\ settings_last.op = "load"
    /\ settings_last.read_ok
    /\ settings_last.saved.some
    /\ settings_last.overwrote
    /\ settings_last.res.ok
    /\ settings_last.res.v.mic_enabled
    /\ settings_last.res.v.immersive_shortcut = <<"\"">>
    /\ settings_last.res.v.save_location = Some(<<"\\">>)

\* C18: load() on a store with no settings file returns the default
\* settings and leaves the file absent; load() on a file that is there, can
\* be read and does not parse as settings returns a Settings error.
C18_DefaultsOnlyWhenMissing ==
    settings_last.op = "load" =>
        /\ ~settings_last.found =>
              /\ settings_last.res = OkValue(AppSettingsDefault)
              /\ ~settings_file.some
        /\ (/\ settings_last.found
            /\ settings_last.read_ok
            /\ ~(settings_file.v.kind = "json" /\ from_str(settings_file.v).ok))
              => settings_last.res.kind = "Settings"


-----------------------------------------------------------------------------
(* The shortcut parser *)

\* the shortcut grammar, modifier ("+" modifier)* "+" key: the string is cut
\* at every '+', each piece but the last names a modifier, there is at least
\* one of them, and the last piece names a supported key
InGrammar(s) ==
    LET segments == split(s, "+")
        n == Len(segments)
        names_modifier(i) ==
            modifier_for(to_ascii_lowercase(str_trim(segments[i]))) # 0
    IN  /\ n >= 2
        /\ \A i \in 1..(n - 1) : names_modifier(i)
        /\ ~names_modifier(n)
        /\ key_code_for(str_trim(segments[n])).some

\* C19: parse_shortcut returns a (modifiers, key_code) pair for exactly the
\* strings of the shortcut grammar, and an AppError::Settings for every
\* other string.
C19_AcceptsExactlyTheGrammar ==
    parsed.some =>
        /\ parsed.v.ok <=> InGrammar(shortcut)
        /\ ~parsed.v.ok => parsed.v.kind = "Settings"


-----------------------------------------------------------------------------
(* The mux alignment *)

\* the offset of the source in units of 200 ns, 0 when there is none
OffsetOf(source) ==
    IF offsets[source].some THEN offsets[source].v ELSE 0

\* the filter delays the source by the whole number of milliseconds nearest
\* to its offset
DelaysByNearestMs(source) ==
    /\ filters.v[source].filter = "adelay"
    /\ 2 * filters.v[source].delay_ms * TicksPerMs - 2 * OffsetOf(source)
          \in (-TicksPerMs)..TicksPerMs

\* the filter trims from the head of the source its offset's length, as
\* exactly as the six decimals of the filter's argument can say it
TrimsByNearestUs(source) ==
    /\ filters.v[source].filter = "atrim"
    /\ 2 * filters.v[source].trim_us * TicksPerUs + 2 * OffsetOf(source)
          \in (-TicksPerUs)..TicksPerUs

-----------------------------------------------------------------------------
(* C21: the tempo chain multiplies out to the ratio *)

\* the product of the factors of a chain as the fraction n / d millionths;
\* the last factor of a chain is the only one that is not 2.0 or 0.5
RECURSIVE ProductOf(_)
ProductOf(factors) ==
    IF factors = <<>> THEN [n |-> Millionths, d |-> 1]
    ELSE LET rest == ProductOf(Tail(factors))
         IN  IF Head(factors) = 2 * Millionths
             THEN [n |-> 2 * rest.n, d |-> rest.d]
             ELSE IF Head(factors) = Millionths \div 2
             THEN [n |-> rest.n, d |-> 2 * rest.d]
             ELSE [n |-> (rest.n \div Millionths) * Head(factors),
                   d |-> rest.d]

\* C21: for every ratio r > 0, build_atempo_chain(r) is a finite sequence
\* of factors, each within [0.5, 2.0], whose product is within 1e-4 of r
C21_ChainMultipliesOutToRatio ==
    (tempo.some /\ ratio > 0) =>
        /\ \A i \in 1..Len(tempo.v) :
              /\ tempo.v[i] >= Millionths \div 2
              /\ tempo.v[i] <= 2 * Millionths
        /\ LET p == ProductOf(tempo.v)
           IN  /\ p.n - ratio * p.d <= TEMPO_EPSILON * p.d
               /\ ratio * p.d - p.n <= TEMPO_EPSILON * p.d


-----------------------------------------------------------------------------
(* C22: a failed start and the children it spawned *)

\* C22: when start_recording fails after the video encoder child (and
\* possibly the microphone child) was spawned, every child spawned by that
\* attempt has been terminated by the time start returns: no encoder or
\* microphone process outlives a failed start.
C22_FailedStartLeavesNoChild ==
    (last.op = "start" /\ ~last.res.ok /\ last.capture = Some(last.res)) =>
        procs \cap leaked({"video", "mic"}) = {}


-----------------------------------------------------------------------------
(* C23: is_paused, the clock and the pause flag *)

\* C23: whenever no Recorder operation is in flight and the Recorder is
\* Recording, is_paused = true implies that the clock is not running and
\* the recording_paused flag is set, and is_paused = false implies that the
\* clock is running and the flag is clear, under every interleaving of
\* pause() and resume() with a start() that has marked the session as
\* recording but has not yet started the capture and the clock.
C23_PauseStateAgrees ==
    (Quiescent /\ is_recording) =>
        /\ is_paused => (~clock.running /\ recording_paused)
        /\ ~is_paused => (clock.running /\ ~recording_paused)


-----------------------------------------------------------------------------
(* C24: the screen callback and the camera while paused *)

\* a step of the screen callback
ScreenStep == handled' = handled + 1 /\ last_cb'.kind = "screen"

\* C24: every screen callback, paused or not, hands its timestamp to the
\* camera sync engine before the pause check; while paused with sync
\* enabled each screen frame still has exactly one camera outcome (a frame
\* emitted, the last frame repeated, or a drop counted) and nothing is
\* written to the encoder pipe.
C24_CameraFollowsScreenWhilePaused ==
    [][ScreenStep =>
         /\ screen_tick_count' = screen_tick_count + 1
         /\ last_screen_pts_ns' = last_sync'.screen_pts_ns
         /\ (recording_paused /\ sync_enabled) =>
               /\ (frame_out_count' - frame_out_count)
                    + (repeated_frames' - repeated_frames)
                    + (dropped_frames' - dropped_frames) = 1
               /\ frame_out_count' >= frame_out_count
               /\ repeated_frames' >= repeated_frames
               /\ dropped_frames' >= dropped_frames
               /\ Len(emitted') = Len(emitted)
                    + (IF dropped_frames' > dropped_frames THEN 0 ELSE 1)
               /\ video_frame_count' = video_frame_count]_vars

\* a camera frame was popped and emitted for a screen frame that arrived
\* while paused, and that screen frame was not written
C24_EmittedWhilePaused ==
    /\ last_cb.kind = "screen"
    /\ last_cb.paused
    /\ last_cb.write_ok
    /\ last_sync.op = "emit_for_screen_pts"
    /\ last_sync.enabled
    /\ last_sync.frame.some
    /\ frame_out_count = 1
    /\ video_frame_count = 0


-----------------------------------------------------------------------------
(* C25: the engine when sync becomes enabled *)

\* C25: at the moment camera sync becomes enabled the frame buffer is
\* empty, frame_in_count, frame_out_count, screen_tick_count,
\* dropped_frames and repeated_frames are zero, last_emitted_frame is absent
\* and target_offset_ns is 30 ms, even when the preview has pushed frames
\* before.
C25_EnabledOnAFreshEngine ==
    [][(~sync_enabled /\ sync_enabled') =>
         /\ frames' = <<>>
         /\ frame_in_count' = 0
         /\ frame_out_count' = 0
         /\ screen_tick_count' = 0
         /\ dropped_frames' = 0
         /\ repeated_frames' = 0
         /\ last_emitted_frame' = None
         /\ target_offset_ns' = INITIAL_TARGET_OFFSET_NS]_vars


-----------------------------------------------------------------------------
(* C26: one outcome for every screen timestamp *)

\* a step of emit_for_screen_pts
TickStep == last_sync'.emits = last_sync.emits + 1

\* the outcome of a step of emit_for_screen_pts: exactly one of
\* frame_out_count, repeated_frames and dropped_frames increases by one
\* when sync is enabled, a frame is emitted with the first two, and when
\* sync is disabled nothing is emitted and none of the three changes
OneOutcome ==
    LET out == frame_out_count' - frame_out_count
        rep == repeated_frames' - repeated_frames
        drop == dropped_frames' - dropped_frames
    IN  IF sync_enabled
        THEN /\ {out, rep, drop} = {0, 1}
             /\ out + rep + drop = 1
             /\ out = 1 <=> last_sync'.frame.some
             /\ rep = 1 <=> (~last_sync'.frame.some /\ last_emitted_frame.some)
             /\ out = 1 => emitted' = Append(emitted,
                              Emission(last_sync'.frame.v, "pop",
                                       last_emit_delta_ns'))
             /\ rep = 1 => emitted' = Append(emitted,
                              Emission(last_emitted_frame.v, "reuse", 0))
             /\ drop = 1 => emitted' = emitted
        ELSE /\ out = 0 /\ rep = 0 /\ drop = 0
             /\ emitted' = emitted

\* C26 as stated: for every screen timestamp handled with sync enabled
\* exactly one of frame_out_count, repeated_frames and dropped_frames
\* increases by one; when no buffered frame qualifies and a last emitted
\* frame exists, that frame is emitted again and repeated_frames is
\* incremented; dropped_frames is incremented only when no frame qualifies
\* and no frame has ever been emitted.  A timestamp handled with sync
\* disabled emits nothing and changes none of the three.
C26_DropsOnlyBeforeAnyEmission ==
    [][TickStep =>
         /\ OneOutcome
         /\ dropped_frames' > dropped_frames =>
               (~last_sync'.frame.some /\ emitted = <<>>)]_vars

\* C26, amended: as above, with dropped_frames incremented only when no
\* frame qualifies and there is no last emitted frame, none having been
\* emitted since the engine was last reset or cleared.
C26_OneOutcomePerTick ==
    [][TickStep =>
         /\ OneOutcome
         /\ dropped_frames' > dropped_frames =>
               (~last_sync'.frame.some /\ ~last_emitted_frame.some)]_vars

\* the last emitted frame was repeated for a screen timestamp that no
\* buffered frame qualified for, after a frame had been popped and emitted
C26_RepeatedAfterEmit ==
    /\ last_sync.op = "emit_for_screen_pts"
    /\ last_sync.enabled
    /\ ~last_sync.frame.some
    /\ frame_out_count = 1
    /\ repeated_frames = 1
    /\ dropped_frames = 0
    /\ Len(emitted) >= 2
    /\ emitted[Len(emitted)].via = "reuse"


-----------------------------------------------------------------------------
(* C27: the range of the offset *)

\* C27: under any interleaving of push_frame, emit_for_screen_pts
\* (including two of them racing on the load and the store of the offset)
\* and set_sync_enabled, 0 <= target_offset_ns <= 120 ms in every state;
\* it is 30 ms at creation and right after each transition of sync from
\* enabled to disabled.
C27_OffsetStaysInRange ==
    /\ target_offset_ns = INITIAL_TARGET_OFFSET_NS
    /\ [](target_offset_ns >= 0 /\ target_offset_ns <= MAX_CAM_DELAY_NS)
    /\ [][(sync_enabled /\ ~sync_enabled') =>
            target_offset_ns' = INITIAL_TARGET_OFFSET_NS]_vars

\* a callback stored the offset at the cap over a value another callback
\* had stored since it loaded
C27_StoredOverAnotherStore ==
    /\ \E c \in Callbacks : ticking[c].raced
    /\ target_offset_ns = MAX_CAM_DELAY_NS
    /\ sync_enabled


-----------------------------------------------------------------------------
(* C28: the direction of the offset update *)

\* a step of emit_for_screen_pts that pops a frame with sync enabled
PopStep == TickStep /\ sync_enabled /\ last_sync'.frame.some

\* C28: on each tick that pops a frame, with delta = S - frame.pts, the
\* offset moves toward the value that yields a 5 ms lag: the step is
\* max(|delta - 5 ms| / 8, 1 us), taken in the direction that reduces
\* |delta - 5 ms| on the following tick (a larger offset pops older frames,
\* so the offset goes down when delta is above 5 ms and up when below), the
\* result is clamped to [0, 120 ms], lead / 16 is added only when the most
\* recently pushed frame is more than 60 ms older than S, and at delta =
\* 5 ms exactly the offset is left where it is.
C28_StepsTowardTargetLag ==
    [][PopStep =>
         LET delta == last_emit_delta_ns'
             lead == IF last_frame'.some
                     THEN saturating_sub(last_sync'.screen_pts_ns,
                                         last_frame'.v.pts_ns)
                     ELSE 0
             step == IF delta > CAMERA_TARGET_LAG_NS
                     THEN Max((delta - CAMERA_TARGET_LAG_NS) \div 8, 1000)
                     ELSE Max((CAMERA_TARGET_LAG_NS - delta) \div 8, 1000)
             toward == IF delta > CAMERA_TARGET_LAG_NS
                       THEN saturating_sub(target_offset_ns, step)
                       ELSE IF delta < CAMERA_TARGET_LAG_NS
                       THEN Min(target_offset_ns + step, MAX_CAM_DELAY_NS)
                       ELSE target_offset_ns
         IN  target_offset_ns' =
                IF lead > MAX_CAM_DELAY_NS \div 2
                THEN Min(toward + lead \div 16, MAX_CAM_DELAY_NS)
                ELSE toward]_vars


-----------------------------------------------------------------------------
(* C29: the offset during a sync session *)

-----------------------------------------------------------------------------
(* C30: the order of the capture-side stop *)

\* the steps caller t has finished, oldest first
StepsOf(t) == SelectSeq(stopping.steps, LAMBDA s : s.t = t)

\* the steps of stop_recording in the order of the claim; the microphone
\* step belongs to the stops of sessions with a microphone child
StopOrder(mic) ==
    IF mic THEN <<"take", "stop_capture", "sleep", "close", "wait_video",
                  "wait_mic", "mux", "return">>
           ELSE <<"take", "stop_capture", "sleep", "close", "wait_video",
                  "mux", "return">>

\* C30: every stop_recording runs its steps in this order: the session is
\* taken out of the shared state, the capture stream is stopped, the
\* callbacks are given their 100 ms, the encoder stdin and the system-audio
\* file are closed, the encoder child has exited or been killed, the
\* microphone child has exited or been killed, the muxer is invoked, the
\* result is returned; when the muxer starts neither child is alive; and a
\* stop that arrives after another has taken the session finds none and
\* returns "No active recording"
C30_StopRunsInOrder ==
    /\ \A t \in Threads :
          LET mine == StepsOf(t)
          IN  mine # <<>> =>
                IF mine[1].step = "refused"
                THEN /\ Len(mine) = 1
                     /\ mine[1].res = Some(Err("No active recording"))
                ELSE LET order == StopOrder(mine[1].state.v.mic_process)
                     IN  /\ Len(mine) <= Len(order)
                         /\ \A i \in 1..Len(mine) : mine[i].step = order[i]
                         /\ \A i \in 1..Len(mine) :
                               mine[i].res.some <=> mine[i].step = "return"
    /\ \A i \in 1..Len(stopping.steps) :
          LET s == stopping.steps[i]
          IN  /\ s.step = "take" => ~s.session.some
              /\ s.step = "close" =>
                    ~s.state.v.video_writer /\ ~s.state.v.audio_writer
              /\ s.step = "wait_video" => "video" \notin s.procs
              /\ s.step = "wait_mic" => "mic" \notin s.procs
              /\ s.step = "mux" => "video" \notin s.procs /\ "mic" \notin s.procs
              /\ \A j \in 1..(i - 1) :
                    stopping.steps[j].step = "take" => s.step # "take"

\* a stop of a session with a microphone has returned the output after an
\* encoder that outlived its timeout, and the other caller's stop, arriving
\* in the middle of it, was refused
C30_StoppedAndSecondRefused ==
    \E i, j, k \in 1..Len(stopping.steps) :
        /\ i < j /\ j < k
        /\ stopping.steps[i].step = "take"
        /\ stopping.steps[i].state.v.mic_process
        /\ stopping.steps[j].step = "refused"
        /\ stopping.steps[k].step = "return"
        /\ stopping.steps[k].res = Some(Ok)
        /\ \E m \in 1..Len(stopping.steps) :
              /\ stopping.steps[m].step = "wait_video"
              /\ stopping.steps[m].state.v.ffmpeg_process = "timeout"


-----------------------------------------------------------------------------
(* C31: the escalation of signals to the encoder child *)

\* C31: an encoder child that has not exited 5 s after its stdin was closed
\* is sent SIGINT, then SIGTERM, then SIGKILL: SIGKILL is never sent before
\* SIGINT and SIGTERM have been sent, and a child that exited within the
\* graceful wait is sent no signal
C31_KillAfterIntAndTerm ==
    \A i \in 1..Len(stopping.steps) :
        LET s == stopping.steps[i]
        IN  s.step = "wait_video" =>
              LET sent == s.state.v.signals.video
              IN  /\ s.state.v.ffmpeg_process = "exited" => sent = <<>>
                  /\ \A k \in 1..Len(sent) :
                        sent[k] = "SIGKILL" =>
                           \E a, b \in 1..(k - 1) :
                              a < b /\ sent[a] = "SIGINT" /\ sent[b] = "SIGTERM"


-----------------------------------------------------------------------------
(* C32: the capture-side stop returns *)

-----------------------------------------------------------------------------
(* C33: no write after the close of a writer slot *)

\* the writes of out that belong to frame f of callback c
WritesOf(out, c, f) == {i \in 1..Len(out) : out[i].c = c /\ out[i].frame = f}

\* C33: once stop_recording has set a writer slot to None, nothing more is
\* written to its writer, not even by a callback that was running when the
\* stop began; a frame or block is written as a whole before the close or
\* not at all, unless the writer itself refuses a write; and the writes of
\* two frames are never interleaved
C33_NoWriteAfterClose ==
    \A w \in Writers :
        LET out == writers.out[w]
        IN  /\ writers.closed_at[w].some =>
                 /\ ~writers.slot[w]
                 /\ Len(out) = writers.closed_at[w].v
                 /\ \A c \in Callbacks, f \in 1..MaxFrames :
                       \/ WritesOf(out, c, f) = {}
                       \/ Cardinality(WritesOf(out, c, f)) = FrameWrites
                       \/ <<c, f>> \in writers.refused
            /\ \A i, j, k \in 1..Len(out) :
                  (i < j /\ j < k /\ out[i] = out[k]) => out[j] = out[i]

\* a slot was closed after a whole frame had been written, and a callback
\* that took its mutex after the close has left without writing
C33_CallbackFoundSlotEmpty ==
    \E w \in Writers, c \in Callbacks :
        /\ writers.closed_at[w].some
        /\ writers.closed_at[w].v >= FrameWrites
        /\ writers.cb[c].at = "idle"
        /\ writers.cb[c].w = w
        /\ writers.cb[c].frame > 0
        /\ WritesOf(writers.out[w], c, writers.cb[c].frame) = {}
        /\ ~writers.cb[c].failed


-----------------------------------------------------------------------------
(* C34: the elapsed ticker of a stopped session *)

\* C34: a ticker that stop() has cancelled has finished before a later
\* start() succeeds, so none of its "recording-elapsed" events is emitted
\* after the next session has started; and a ticker is registered exactly
\* when the Recorder holds its handle
C34_TickerEndsBeforeNextStart ==
    /\ \A k \in 1..Len(ticker.emitted) :
          ~(ticker.emitted[k].stopped /\ ticker.emitted[k].started)
    /\ SessionStarted => ticker.stopped = {}
    /\ elapsed_task <=> ticker.task # "none"


-----------------------------------------------------------------------------
(* C35: the arrival time of the first microphone read *)

\* a step of the microphone reader's loop that handled a read
MicReadStep == handled' = handled + 1 /\ last_cb'.kind = "mic"

\* C35: within one session first_mic_audio_arrival_ns is stored at most once,
\* by the first non-empty read of the microphone child, paused and muted
\* reads included, and keeps that value; a read made while paused adds
\* nothing to the microphone file and nothing to mic_samples_written
C35_ArrivalStoredOnce ==
    [][ /\ mic_arrival'.stores <= 1
        /\ (sck_state.some /\ sck_state'.some /\ mic_arrival.ns # 0)
              => mic_arrival'.ns = mic_arrival.ns
        /\ mic_arrival'.ns \notin {0, mic_arrival.ns} => MicReadStep
        /\ MicReadStep =>
              /\ mic_arrival.ns = 0 =>
                    /\ mic_arrival'.ns = mic_arrival'.now_ns
                    /\ mic_arrival'.ns # 0
                    /\ mic_arrival'.paused = recording_paused
                    /\ mic_arrival'.muted = mic_muted
              /\ recording_paused =>
                    /\ mic_audio_file' = mic_audio_file
                    /\ mic_samples_written' = mic_samples_written ]_vars

\* the first read came while paused and muted and stored its time; a later
\* read at another time, not paused, was written and left the stored time
C35_FirstReadWhilePaused ==
    /\ mic_arrival.stores = 1
    /\ mic_arrival.paused
    /\ mic_arrival.muted
    /\ mic_arrival.now_ns # mic_arrival.ns
    /\ last_cb.kind = "mic"
    /\ ~last_cb.paused
    /\ last_cb.delta > 0


-----------------------------------------------------------------------------
(* C36: the frames of the preview's reader threads *)

\* C36: over CameraPreview stop()/start() cycles, a start() before the
\* previous reader has seen is_running = false included, the frames reach
\* push_frame in strictly increasing id and non-decreasing pts_ns order, and
\* at most one reader thread is inside the read loop at any time
C36_FramesInOrderFromOneReader ==
    /\ \A i, j \in 1..Len(pushed) :
          i < j => /\ pushed[i].id < pushed[j].id
                   /\ pushed[i].pts_ns <= pushed[j].pts_ns
    /\ Cardinality(reading) <= 1


-----------------------------------------------------------------------------
(* C37: the cached layout of the system audio *)

\* C37: within one session the cached sample rate and the cached channel
\* count each change at most once, from 0 to a positive value that the
\* storing callback detected, whatever the packets that follow describe and
\* however the audio callbacks interleave on the first packets
C37_LayoutCachedOnce ==
    [][ /\ audio_layout'.stores.sample_rate <= 1
        /\ audio_layout'.stores.channel_count <= 1
        /\ audio_layout'.sample_rate # audio_layout.sample_rate =>
              /\ audio_layout.sample_rate = 0
              /\ \E c \in Callbacks :
                    /\ audio_layout.cb[c].pc = "rate"
                    /\ audio_layout'.sample_rate = audio_layout.cb[c].detected_rate
                    /\ audio_layout.cb[c].detected_rate > 0
        /\ audio_layout'.channel_count # audio_layout.channel_count =>
              /\ audio_layout.channel_count = 0
              /\ \E c \in Callbacks :
                    /\ audio_layout.cb[c].pc = "channels"
                    /\ audio_layout'.channel_count
                          = audio_layout.cb[c].detected_channels
                    /\ audio_layout.cb[c].detected_channels > 0 ]_vars

\* two callbacks raced on the first packets with different formats: both
\* fields are cached, and each refused the value of the callback that lost
C37_RaceLostOnBothFields ==
    /\ audio_layout.sample_rate > 0
    /\ audio_layout.channel_count > 0
    /\ \E rate \in SampleRates : <<"sample_rate", rate>> \in audio_layout.refused
    /\ \E ch \in ChannelCounts : <<"channel_count", ch>> \in audio_layout.refused
    /\ audio_layout.packets = 2


-----------------------------------------------------------------------------
(* C38: last_emitted_frame on the push path *)

\* a step of push_frame
PushFrameStep == last_buf'.op = "push" /\ Len(pushed') = Len(pushed) + 1

\* C38 as stated: every push_frame sets last_emitted_frame to the pushed
\* frame, with sync enabled as with sync disabled
C38_EveryPushRecorded ==
    [][ PushFrameStep => last_emitted_frame' = last_buf'.frame ]_vars

\* C38: push_frame sets last_emitted_frame to the pushed frame when sync is
\* disabled, where it also emits the frame, and leaves last_emitted_frame
\* as it is when sync is enabled
C38_PushRecordedInPreviewOnly ==
    [][ PushFrameStep =>
           IF sync_enabled
           THEN last_emitted_frame' = last_emitted_frame
           ELSE last_emitted_frame' = last_buf'.frame ]_vars

\* a frame was pushed with sync enabled, and the last emitted frame is an
\* earlier one
C38_PushedWhileSynced ==
    /\ last_buf.op = "push"
    /\ last_buf.synced
    /\ last_emitted_frame.some
    /\ last_emitted_frame # last_buf.frame


-----------------------------------------------------------------------------
(* C39: the mutexes of the Recorder *)

\* C39: concurrent Recorder operations on clones of one Recorder never
\* deadlock: a thread inside an operation can take its step or waits for a
\* mutex whose holder can take its own; the state mutex is never awaited by
\* a thread holding the clock mutex; no thread locks a mutex it holds; and
\* neither mutex is held by a thread inside sck_recorder.stop
C39_NoDeadlock ==
    \A t \in Threads :
       inside(t) =>
          /\ \/ can_step(t)
             \/ /\ locking.owner[step_of(t)[2]] # t
                /\ can_step(locking.owner[step_of(t)[2]])
          /\ step_of(t) = Lock("state") => locking.owner["clock"] # t
          /\ step_of(t)[1] = "lock" => locking.owner[step_of(t)[2]] # t
          /\ step_of(t) = Run("sck_recorder.stop") =>
                \A m \in Mutexes : locking.owner[m] # t

\* one thread, inside pause or resume, holds the state mutex and waits for
\* the clock mutex, which the other holds inside elapsed_ms
C39_WaitsForClockHoldingState ==
    /\ locking.th["t1"].op \in {"pause", "resume"}
    /\ step_of("t1") = Lock("clock")
    /\ locking.owner["state"] = "t1"
    /\ locking.owner["clock"] = "t2"
    /\ locking.th["t2"].op = "elapsed_ms"


-----------------------------------------------------------------------------
(* C40: the RecordingClock in every state *)

\* C40: in every reachable state of a RecordingClock running holds exactly
\* when start_instant is present, and elapsed() is accumulated plus, while
\* running, the time since start_instant; pause() on a clock that is not
\* running and resume() on a running clock leave the clock as it is, and
\* start() and stop() both leave accumulated at zero
C40_ClockWellFormed ==
    /\ clock.running <=> clock.start_instant.some
    /\ clock_elapsed(clock, now)
          = clock.accumulated
              + (IF clock.running THEN now - clock.start_instant.v ELSE 0)
    /\ ~clock.running => clock_pause(clock, now) = clock
    /\ clock.running => clock_resume(clock, now) = clock
    /\ clock_start(clock, now).accumulated = 0
    /\ clock_stop(clock).accumulated = 0

\* a clock that was paused and resumed and has run on since: a resume that
\* restarted start_instant, or a start or stop that kept accumulated, would
\* show
C40_RunningAfterAPause ==
    /\ clock.running
    /\ clock.accumulated > 0
    /\ now > clock.start_instant.v

=============================================================================
